---- MODULE Spec2Model ----
(***************************************************************************)
(* Model of astrbot_plugin_cliproxy_stats: the card renderer               *)
(* (src/stats_renderer.py) and the parts of the plugin (src/main.py) that  *)
(* feed it.                                                                *)
(*                                                                         *)
(* Payloads are modelled by their layout shape.  Every list whose entries  *)
(* are only drawn row by row is represented by its length (n_apis,         *)
(* n_model_stats, n_auth_stats, n_providers, n_quotas); an optional        *)
(* mapping by a presence flag (has_auth_info, has_token_breakdown,         *)
(* has_query_time).  All pixel arithmetic is the code's: lengths are       *)
(* multiplied by the supersample factor, cropped, and divided again.       *)
(***************************************************************************)
EXTENDS Integers, Sequences, FiniteSets, TLC

VARIABLES
    SCALE_FACTOR,      \* StatsCardRenderer.SCALE_FACTOR (3 if high_res else 2)
    data,              \* the payload handed to render()
    canvas,            \* the planner's pass: allocated size, final cursor, drawn groups
    img,               \* what render() returned (is_none = TRUE for None)
    planner_runs,      \* how often each planner ran during the call
    config,            \* the plugin configuration read by Main.__init__
    max_render_count,  \* Main.max_render_count
    auth_files,        \* the credentials returned by the auth-file fetcher
    bar,               \* the last progress bar drawn
    tint,              \* the last value coloured: the value and every colour chosen for it
    label,             \* the last text fitted into a slot of an account card
    wrap,              \* the last text wrapped by _wrap_text and the lines returned
    handler,           \* the run of one image command: its position and what it has yielded
    parsed,            \* the last quota response parsed and the entries built from it
    font,              \* the font resolver: _font_path_cache, the files present, its callers
    session,           \* CPAClient._session, the sessions it created, the coroutines using it
    quota_call,        \* one antigravity quota lookup: the endpoints' answers, its position
    build              \* one run of _build_quota_data: the await it is at, the entries so far

\* The state of the steps modelled one by one, outside a whole render call.
service_vars == <<font, session, quota_call, build>>
step_vars == <<tint, label, wrap, handler, parsed, service_vars>>

vars == <<SCALE_FACTOR, data, canvas, img, planner_runs, config,
          max_render_count, auth_files, bar, tint, label, wrap, handler, parsed,
          font, session, quota_call, build>>

(***************************************************************************)
(* Bounds of the model.                                                    *)
(***************************************************************************)
MaxApis == 9            \* overview payload: 0..MaxApis api entries (the code draws 8)
MaxAuthProviders == 2   \* overview payload: providers listed in auth_info
MaxModelStats == 16     \* today payload: model_stats entries (the code draws 15)
MaxAuthStats == 10      \* today payload: auth_stats entries (the code draws 8)
MaxAccounts == 3        \* quota payload, several providers: accounts
MaxGroupSize == 5       \* quota payload, one provider: accounts
MaxCap == 2             \* largest per-provider cap in max_render_count
MaxDashAccounts == 2    \* dashboard payload: accounts
MaxAnalysisLines == 1   \* dashboard payload: wrapped analysis lines
ManyQuotas == 310       \* quota entries of one long account in a dashboard

(***************************************************************************)
(* Python builtins used by the renderer.                                   *)
(***************************************************************************)
Min(a, b) == IF a <= b THEN a ELSE b
Max(a, b) == IF a >= b THEN a ELSE b

RECURSIVE SumSeq(_)
SumSeq(s) == IF s = <<>> THEN 0 ELSE Head(s) + SumSeq(Tail(s))

RECURSIVE SeqsUpTo(_, _)
SeqsUpTo(S, n) ==
    IF n = 0 THEN {<<>>}
    ELSE LET shorter == SeqsUpTo(S, n - 1)
         IN  shorter \cup {Append(q, x) : q \in {r \in shorter : Len(r) = n - 1}, x \in S}

(***************************************************************************)
(* Supersample / crop / downscale pipeline.                                *)
(***************************************************************************)
\* A downscale that forgets the division by the factor.
downscale_image_no_division(width, height, scale) ==
    [is_none |-> FALSE, width |-> width, height |-> height]

\* _downscale_image: target size = size // SCALE_FACTOR.
downscale_image(width, height, scale) ==
    [is_none |-> FALSE, width |-> width \div scale, height |-> height \div scale]

\* _crop_to_content without the clamp to the image height.
crop_to_content_unclamped(img_height, final_y, padding, scale) ==
    Max(final_y + padding, 100 * scale)

\* _crop_to_content: the height of the image it returns.
crop_to_content(img_height, final_y, padding, scale) ==
    LET c1 == final_y + padding
        c2 == Min(c1, img_height)
        c3 == Max(c2, 100 * scale)
    IN  IF c3 < img_height THEN c3 ELSE img_height

NoImage == [is_none |-> TRUE, width |-> 0, height |-> 0]
NoCanvas == [planner |-> "none", width |-> 0, height |-> 0, y |-> 0,
             padding |-> 0, crop_height |-> 0, groups |-> <<>>, auth_rows |-> <<>>]

\* The tail of every planner: the canvas it allocated (width x height), the final
\* cursor y, the bottom padding, the height left by _crop_to_content, the groups drawn.
cropped(planner, width, height, y, padding, groups, scale) ==
    [planner     |-> planner,
     width       |-> width,
     height      |-> height,
     y           |-> y,
     padding     |-> padding,
     crop_height |-> crop_to_content(height, y, padding, scale),
     groups      |-> groups,
     auth_rows   |-> <<>>]

\* A downscale by 2 whatever the supersample factor.
finish_by_two(c, scale) == downscale_image(c.width, c.crop_height, 2)

\* The value a planner returns: the cropped canvas, downscaled.
finish(c, scale) == downscale_image(c.width, c.crop_height, scale)

(***************************************************************************)
(* render_overview                                                         *)
(***************************************************************************)
\* base_height of render_overview (logical pixels).
overview_base_height(d) ==
    320
    + (IF d.n_apis > 0 THEN 40 + Min(d.n_apis, 8) * 36 ELSE 0)
    + (IF d.has_auth_info THEN 60 + d.n_providers * 28 ELSE 0)
    + 50

\* The auth block assigns the cursor instead of advancing it.
overview_final_y_assign(d, scale) ==
    LET padding == 28 * scale
        y1 == padding + 40 * scale + (90 * scale + 16 * scale) + 86 * scale
        y2 == IF d.n_apis > 0
              THEN y1 + 28 * scale + Min(d.n_apis, 8) * (32 * scale) + 8 * scale
              ELSE y1
        y3 == IF d.has_auth_info
              THEN 28 * scale + d.n_providers * (26 * scale)
              ELSE y2
    IN  IF d.has_query_time THEN y3 + 8 * scale + 20 * scale ELSE y3

\* The cursor y of render_overview when it reaches the crop (supersampled pixels).
overview_final_y(d, scale) ==
    LET padding == 28 * scale
        y1 == padding + 40 * scale + (90 * scale + 16 * scale) + 86 * scale
        y2 == IF d.n_apis > 0
              THEN y1 + 28 * scale + Min(d.n_apis, 8) * (32 * scale) + 8 * scale
              ELSE y1
        y3 == IF d.has_auth_info
              THEN y2 + 28 * scale + d.n_providers * (26 * scale)
              ELSE y2
    IN  IF d.has_query_time THEN y3 + 8 * scale + 20 * scale ELSE y3

render_overview(d, scale) ==
    cropped("overview", 520 * scale, overview_base_height(d) * scale,
            overview_final_y(d, scale), 16 * scale, <<>>, scale)

(***************************************************************************)
(* render_today                                                            *)
(***************************************************************************)
today_base_height(d) ==
    240
    + (IF d.has_token_breakdown THEN 80 ELSE 0)
    + (IF d.n_model_stats > 0 THEN 50 + Min(d.n_model_stats, 15) * 36 ELSE 0)
    + (IF d.n_auth_stats > 0 THEN 50 + Min(d.n_auth_stats, 8) * 32 ELSE 0)
    + (IF d.time_slots # "absent" THEN 120 ELSE 0)
    + 60

\* A credential section that draws every entry of the payload.
today_auth_rows_all(d) == [k \in 1..d.n_auth_stats |-> k]

\* "for auth in auth_stats[:8]": the positions in auth_stats of the rows drawn, in order.
today_auth_rows(d) == [k \in 1..Min(d.n_auth_stats, 8) |-> k]

\* The time-slot chart is drawn for any non-empty time_slots, populated or not.
today_final_y_chart_always(d, scale) ==
    LET padding == 28 * scale
        y1 == padding + 70 * scale + (90 * scale + 20 * scale)
        y2 == IF d.has_token_breakdown THEN y1 + 28 * scale + 64 * scale ELSE y1
        y3 == IF d.n_model_stats > 0
              THEN y2 + 30 * scale + Min(d.n_model_stats, 15) * (34 * scale) + 12 * scale
              ELSE y2
        y4 == IF d.n_auth_stats > 0
              THEN y3 + 28 * scale + Len(today_auth_rows(d)) * (30 * scale) + 10 * scale
              ELSE y3
        y5 == IF d.time_slots # "absent"
              THEN y4 + 30 * scale + (60 * scale + 32 * scale)
              ELSE y4
    IN  IF d.has_query_time THEN y5 + 20 * scale ELSE y5

\* The cursor y of render_today when it reaches the crop.
today_final_y(d, scale) ==
    LET padding == 28 * scale
        y1 == padding + 70 * scale + (90 * scale + 20 * scale)
        y2 == IF d.has_token_breakdown THEN y1 + 28 * scale + 64 * scale ELSE y1
        y3 == IF d.n_model_stats > 0
              THEN y2 + 30 * scale + Min(d.n_model_stats, 15) * (34 * scale) + 12 * scale
              ELSE y2
        y4 == IF d.n_auth_stats > 0
              THEN y3 + 28 * scale + Len(today_auth_rows(d)) * (30 * scale) + 10 * scale
              ELSE y3
        y5 == IF d.time_slots = "populated"
              THEN y4 + 30 * scale + (60 * scale + 32 * scale)
              ELSE y4
    IN  IF d.has_query_time THEN y5 + 20 * scale ELSE y5

render_today(d, scale) ==
    [cropped("today", 680 * scale, today_base_height(d) * scale,
             today_final_y(d, scale), 16 * scale, <<>>, scale)
        EXCEPT !.auth_rows = today_auth_rows(d)]

(***************************************************************************)
(* Grouping and truncation shared by render_quota and render_dashboard.    *)
(***************************************************************************)
\* Keys of a dict built by "if provider not in d: d[provider] = []", in insertion order.
RECURSIVE provider_order(_)
provider_order(accounts) ==
    IF accounts = <<>> THEN <<>>
    ELSE LET p == Head(accounts).provider
         IN  <<p>> \o provider_order(SelectSeq(Tail(accounts), LAMBDA a : a.provider # p))

\* provider_accounts[provider] before truncation.
accounts_of(accounts, provider) == SelectSeq(accounts, LAMBDA a : a.provider = provider)

\* config_key = "gemini-cli" if provider == "gemini" else provider
config_key(provider) == IF provider = "gemini" THEN "gemini-cli" ELSE provider

\* max_render_count.get(config_key, 0); an absent mapping is the empty one.
caps_get(mrc, key) == IF key \in DOMAIN mrc THEN mrc[key] ELSE 0

\* A truncation that records the dropped accounts but keeps drawing them all.
truncate_group_keep_all(accs, provider, mrc) ==
    LET max_count == caps_get(mrc, config_key(provider))
    IN  IF DOMAIN mrc # {} /\ max_count > 0 /\ Len(accs) > max_count
        THEN [accs |-> accs, footnote |-> TRUE,
              truncated |-> Len(accs) - max_count]
        ELSE [accs |-> accs, footnote |-> FALSE, truncated |-> 0]

\* A truncation that reports the cap instead of the number of dropped accounts.
truncate_group_reports_cap(accs, provider, mrc) ==
    LET max_count == caps_get(mrc, config_key(provider))
    IN  IF DOMAIN mrc # {} /\ max_count > 0 /\ Len(accs) > max_count
        THEN [accs |-> SubSeq(accs, 1, max_count), footnote |-> TRUE,
              truncated |-> max_count]
        ELSE [accs |-> accs, footnote |-> FALSE, truncated |-> 0]

\* "if max_count > 0 and len(group) > max_count": truncated_counts[provider] and
\* the slice group[:max_count].  footnote is "provider in truncated_counts".
truncate_group(accs, provider, mrc) ==
    LET max_count == caps_get(mrc, config_key(provider))
    IN  IF DOMAIN mrc # {} /\ max_count > 0 /\ Len(accs) > max_count
        THEN [accs |-> SubSeq(accs, 1, max_count), footnote |-> TRUE,
              truncated |-> Len(accs) - max_count]
        ELSE [accs |-> accs, footnote |-> FALSE, truncated |-> 0]

(***************************************************************************)
(* render_quota                                                            *)
(***************************************************************************)
\* calc_account_height (logical pixels).
calc_account_height(account) ==
    IF account.error THEN 70 ELSE 48 + account.n_quotas * 44

\* A row as high as its left card only.
quota_row_left_only(accs, i, scale) ==
    [left   |-> i,
     right  |-> IF i + 1 <= Len(accs) THEN i + 1 ELSE 0,
     height |-> calc_account_height(accs[i]) * scale]

\* One pass of "for i in range(0, len(accs), 2)": the cards of the row and
\* row_height = max(left_height, right_height).  Positions are 1-based.
quota_row(accs, i, scale) ==
    LET left_height  == calc_account_height(accs[i]) * scale
        right_height == IF i + 1 <= Len(accs)
                        THEN calc_account_height(accs[i + 1]) * scale ELSE 0
    IN  [left   |-> i,
         right  |-> IF i + 1 <= Len(accs) THEN i + 1 ELSE 0,
         height |-> Max(left_height, right_height)]

RECURSIVE quota_rows(_, _, _)
quota_rows(accs, i, scale) ==
    IF i > Len(accs) THEN <<>>
    ELSE <<quota_row(accs, i, scale)>> \o quota_rows(accs, i + 2, scale)

\* The cursor advance of one provider's rows: "y += row_height + 14 * scale" per row.
RECURSIVE rows_advance(_, _)
rows_advance(rows, scale) ==
    IF rows = <<>> THEN 0
    ELSE Head(rows).height + 14 * scale + rows_advance(Tail(rows), scale)

\* What render_quota does with one provider group.
quota_group(accounts, provider, mrc, scale) ==
    LET supplied == accounts_of(accounts, provider)
        t        == truncate_group(supplied, provider, mrc)
        rows     == quota_rows(t.accs, 1, scale)
    IN  [provider       |-> provider,
         supplied       |-> supplied,
         accs           |-> t.accs,
         footnote       |-> t.footnote,
         truncated      |-> t.truncated,
         rows           |-> rows,
         content_height |-> rows_advance(rows, scale)]

quota_groups(d, scale) ==
    LET order == provider_order(d.accounts)
    IN  [k \in 1..Len(order) |->
            quota_group(d.accounts, order[k], d.max_render_count, scale)]

\* row_heights of the height computation: max(left, right) + 16 per row (logical pixels).
RECURSIVE row_heights(_, _)
row_heights(accs, i) ==
    IF i > Len(accs) THEN <<>>
    ELSE LET left_height  == calc_account_height(accs[i])
             right_height == IF i + 1 <= Len(accs)
                             THEN calc_account_height(accs[i + 1]) ELSE 0
         IN  <<Max(left_height, right_height) + 16>> \o row_heights(accs, i + 2)

\* The share of one provider group in base_height (logical pixels).
quota_group_base_height(g) ==
    44 + SumSeq(row_heights(g.accs, 1)) + (IF g.footnote THEN 32 ELSE 0) + 12

\* The cursor advance of one provider group (supersampled pixels).
quota_group_advance(g, scale) ==
    40 * scale + g.content_height + (IF g.footnote THEN 28 * scale ELSE 0) + 8 * scale

render_quota(d, scale) ==
    LET groups == quota_groups(d, scale)
        base_height ==
            90 + SumSeq([k \in 1..Len(groups) |->
                            quota_group_base_height(groups[k])]) + 50
        y == 28 * scale + 70 * scale
             + SumSeq([k \in 1..Len(groups) |-> quota_group_advance(groups[k], scale)])
        final_y == y + 24 * scale
    IN  cropped("quota", 880 * scale, base_height * scale, final_y, 16 * scale,
                groups, scale)

(***************************************************************************)
(* render_dashboard                                                        *)
(***************************************************************************)
\* What render_dashboard does with one provider group (single column, no rows).
dashboard_group(accounts, provider, mrc) ==
    LET supplied == accounts_of(accounts, provider)
        t        == truncate_group(supplied, provider, mrc)
    IN  [provider       |-> provider,
         supplied       |-> supplied,
         accs           |-> t.accs,
         footnote       |-> t.footnote,
         truncated      |-> t.truncated,
         rows           |-> <<>>,
         content_height |-> 0]

dashboard_groups(q) ==
    LET order == provider_order(q.accounts)
    IN  [k \in 1..Len(order) |->
            dashboard_group(q.accounts, order[k], q.max_render_count)]

\* Cursor advance of one account: e-mail line, one line per quota, gap.
dashboard_account_advance(acc, scale) ==
    16 * scale + acc.n_quotas * (16 * scale) + 6 * scale

\* Cursor advance of one provider group of the dashboard's quota section.
dashboard_group_advance(g, scale) ==
    22 * scale
    + SumSeq([k \in 1..Len(g.accs) |-> dashboard_account_advance(g.accs[k], scale)])
    + (IF g.footnote THEN 18 * scale ELSE 0)
    + 8 * scale

\* Cursor advance of one wrapped analysis line, by the branch that draws it.
analysis_line_advance(line, scale) ==
    IF line = "heading" THEN 6 * scale + 18 * scale
    ELSE IF line = "bold" THEN 16 * scale
    ELSE IF line = "body" THEN 14 * scale
    ELSE 8 * scale

\* The cursor y of render_dashboard when it reaches the crop.
dashboard_final_y(d, groups, scale) ==
    LET padding == 24 * scale
        y1 == padding + 52 * scale + (54 * scale + 16 * scale) + 28 * scale
        y2 == y1 + Min(d.today.n_model_stats, 12) * (22 * scale)
        y3 == IF d.today.has_token_breakdown
              THEN y2 + 8 * scale + 10 * scale + 20 * scale ELSE y2
        y4 == y3 + 16 * scale + 28 * scale
        y5 == y4 + SumSeq([k \in 1..Len(groups) |->
                              dashboard_group_advance(groups[k], scale)])
                 + 8 * scale
        y6 == IF d.today.time_slots = "populated"
              THEN y5 + 28 * scale + (60 * scale + 28 * scale) ELSE y5
        y7 == y6 + 8 * scale
        y8 == IF d.analysis # <<>>
              THEN y7 + 28 * scale
                      + SumSeq([k \in 1..Len(d.analysis) |->
                                   analysis_line_advance(d.analysis[k], scale)])
              ELSE y7
    IN  y8 + 16 * scale

MAX_HEIGHT == 5000

render_dashboard(d, scale) ==
    LET groups == dashboard_groups(d.quota)
    IN  cropped("dashboard", 800 * scale, MAX_HEIGHT * scale,
                dashboard_final_y(d, groups, scale), 8 * scale, groups, scale)

(***************************************************************************)
(* render: the dispatcher                                                  *)
(***************************************************************************)
Planners == {"overview", "today", "quota", "dashboard"}

\* data.get("stats_type", "")
stats_type_of(d) == IF d.stats_type = "<absent>" THEN "" ELSE d.stats_type

\* A dispatcher whose last branch is an else: anything unrecognised is an overview.
planner_for_default_overview(d) ==
    LET stats_type == stats_type_of(d)
    IN  IF stats_type = "today" THEN "today"
        ELSE IF stats_type = "quota" THEN "quota"
        ELSE IF stats_type = "dashboard" THEN "dashboard"
        ELSE "overview"

\* The if/elif chain of render: the planner it calls, "none" when it falls through.
planner_for(d) ==
    LET stats_type == stats_type_of(d)
    IN  IF stats_type = "overview" THEN "overview"
        ELSE IF stats_type = "today" THEN "today"
        ELSE IF stats_type = "quota" THEN "quota"
        ELSE IF stats_type = "dashboard" THEN "dashboard"
        ELSE "none"

\* The canvas pass of the planner render calls.
plan(d, scale) ==
    LET planner == planner_for(d)
    IN  IF planner = "overview" THEN render_overview(d, scale)
        ELSE IF planner = "today" THEN render_today(d, scale)
        ELSE IF planner = "quota" THEN render_quota(d, scale)
        ELSE IF planner = "dashboard" THEN render_dashboard(d, scale)
        ELSE NoCanvas

\* render(data): one call, all of it.
render(d) ==
    LET c == plan(d, SCALE_FACTOR)
    IN  /\ data' = d
        /\ canvas' = c
        /\ img' = IF c.planner = "none" THEN NoImage ELSE finish(c, SCALE_FACTOR)
        /\ planner_runs' = [k \in Planners \cup {"render"} |->
                               IF k = "render" \/ k = c.planner THEN 1 ELSE 0]

(***************************************************************************)
(* Payloads.                                                               *)
(***************************************************************************)
OverviewShapes ==
    {d \in [n_apis : 0..MaxApis, has_auth_info : BOOLEAN,
            n_providers : 0..MaxAuthProviders, has_query_time : BOOLEAN] :
        ~d.has_auth_info => d.n_providers = 0}

Tagged(tag, d) ==
    [stats_type |-> tag, n_apis |-> d.n_apis, has_auth_info |-> d.has_auth_info,
     n_providers |-> d.n_providers, has_query_time |-> d.has_query_time]

OverviewPayloads == {Tagged("overview", d) : d \in OverviewShapes}

\* Payloads render does not recognise: an overview body under a tag that is
\* empty, absent, misspelt or unknown.
UnknownTags == {"", "<absent>", "Overview", "stats"}
UnknownPayloads == {Tagged(tag, d) : tag \in UnknownTags, d \in OverviewShapes}

\* time_slots: absent (None or []), four buckets that are all 0, four buckets with requests.
TimeSlotShapes == {"absent", "zero", "populated"}

TodayPayloads ==
    [stats_type : {"today"}, has_token_breakdown : BOOLEAN,
     n_model_stats : 0..MaxModelStats, n_auth_stats : 0..MaxAuthStats,
     time_slots : TimeSlotShapes, has_query_time : BOOLEAN]

\* An account is an error card, or a card with one or two quota entries.
AccountShapes == {[error |-> TRUE, n_quotas |-> 0],
                  [error |-> FALSE, n_quotas |-> 1],
                  [error |-> FALSE, n_quotas |-> 2]}

AccountsOf(providers) ==
    {[provider |-> p, error |-> a.error, n_quotas |-> a.n_quotas] :
        p \in providers, a \in AccountShapes}

\* max_render_count: absent (the empty mapping) or a cap for each key.
CapsOver(keys) == {<<>>} \cup [keys -> 0..MaxCap]

QuotaPayloads ==
    [stats_type : {"quota"},
     accounts : SeqsUpTo(AccountsOf({"antigravity", "gemini"}), MaxAccounts),
     max_render_count : CapsOver({"antigravity", "gemini-cli"})]
    \cup
    [stats_type : {"quota"},
     accounts : SeqsUpTo(AccountsOf({"antigravity"}), MaxGroupSize),
     max_render_count : CapsOver({"antigravity"})]

\* The dashboard's sections, each from a few shapes.
DashTodayShapes ==
    [n_model_stats : {0, 13}, has_token_breakdown : BOOLEAN, time_slots : TimeSlotShapes]

DashAccounts ==
    {[provider |-> "antigravity", error |-> TRUE, n_quotas |-> 0],
     [provider |-> "antigravity", error |-> FALSE, n_quotas |-> 1],
     [provider |-> "gemini", error |-> FALSE, n_quotas |-> 1],
     [provider |-> "antigravity", error |-> FALSE, n_quotas |-> ManyQuotas]}

DashQuotaShapes ==
    [accounts : SeqsUpTo(DashAccounts, MaxDashAccounts),
     max_render_count : {<<>>, [k \in {"antigravity", "gemini-cli"} |-> 1]}]

\* The analysis text as the lines _wrap_text returns, each by the branch that draws it.
LineClasses == {"heading", "bold", "body", "blank"}

DashboardPayloads ==
    [stats_type : {"dashboard"}, today : DashTodayShapes, quota : DashQuotaShapes,
     analysis : SeqsUpTo(LineClasses, MaxAnalysisLines)]

Payloads ==
    OverviewPayloads \cup TodayPayloads \cup QuotaPayloads \cup DashboardPayloads
    \cup UnknownPayloads

(***************************************************************************)
(* The renderer: one render call per payload.                              *)
(***************************************************************************)
\* StatsCardRenderer.__init__
renderer_init(high_res) == IF high_res THEN 3 ELSE 2

NoRuns == [k \in Planners \cup {"render"} |-> 0]
\* A max_render_* entry the configuration does not hold.
CfgMissing == [present |-> FALSE, value |-> 0]
NoConfig == [max_render_antigravity |-> CfgMissing, max_render_gemini_cli |-> CfgMissing,
             max_render_codex |-> CfgMissing, high_res_render |-> TRUE]
NoBar == [width |-> 0, height |-> 0, percent |-> 0, track |-> 0, filled |-> 0]

NoTint == [kind |-> "none"]
NoLabel == [slot |-> "none"]
NoWrap == [done |-> FALSE]
NoHandler == [pc |-> "idle"]
NoParsed == [provider |-> "none"]

\* None of the single steps has been taken.
NoFont == [phase |-> "none"]
NoSession == [phase |-> "none"]
NoQuotaCall == [pc |-> "none"]
NoBuild == [pc |-> "none"]

ServicesIdle ==
    /\ font = NoFont
    /\ session = NoSession
    /\ quota_call = NoQuotaCall
    /\ build = NoBuild

StepsIdle ==
    /\ ServicesIdle
    /\ tint = NoTint
    /\ label = NoLabel
    /\ wrap = NoWrap
    /\ handler = NoHandler
    /\ parsed = NoParsed

PluginIdle ==
    /\ config = NoConfig
    /\ max_render_count = <<>>
    /\ auth_files = <<>>
    /\ bar = NoBar
    /\ StepsIdle

Init ==
    /\ SCALE_FACTOR \in {renderer_init(h) : h \in BOOLEAN}
    /\ data \in Payloads
    /\ canvas = NoCanvas
    /\ img = NoImage
    /\ planner_runs = NoRuns
    /\ PluginIdle

Render ==
    /\ render(data)
    /\ UNCHANGED <<SCALE_FACTOR, config, max_render_count, auth_files, bar>>
    /\ UNCHANGED step_vars

Next == Render

Spec == Init /\ [][Next]_vars

(***************************************************************************)
(* The renderer instance reused for one overview after another.            *)
(***************************************************************************)
InitOverview ==
    /\ SCALE_FACTOR \in {renderer_init(h) : h \in BOOLEAN}
    /\ data \in OverviewPayloads
    /\ canvas = NoCanvas
    /\ img = NoImage
    /\ planner_runs = NoRuns
    /\ PluginIdle

RenderOverview ==
    /\ \E d \in OverviewPayloads : render(d)
    /\ UNCHANGED <<SCALE_FACTOR, config, max_render_count, auth_files, bar>>
    /\ UNCHANGED step_vars

NextOverview == RenderOverview

SpecOverview == InitOverview /\ [][NextOverview]_vars

(***************************************************************************)
(* The plugin: Main.__init__, _build_quota_data and the quota command.     *)
(***************************************************************************)
MaxAuthFiles == 11      \* credentials returned by the auth-file fetcher
MaxCfgCap == 1          \* largest max_render_* value in the configuration

\* A max_render_* entry the configuration sets to a number.
CfgValue(v) == [present |-> TRUE, value |-> v]

\* int(self.config.get(key, 10) or 10)
config_cap(entry) ==
    LET got == IF entry.present THEN entry.value ELSE 10
    IN  IF got = 0 THEN 10 ELSE got

\* Main.__init__: self.max_render_count
main_init(cfg) ==
    [k \in {"antigravity", "gemini-cli", "codex"} |->
        IF k = "antigravity" THEN config_cap(cfg.max_render_antigravity)
        ELSE IF k = "gemini-cli" THEN config_cap(cfg.max_render_gemini_cli)
        ELSE config_cap(cfg.max_render_codex)]

QUOTA_SUPPORTED_PROVIDERS == {"antigravity", "gemini", "gemini-cli", "codex"}

\* display_provider = "gemini" if provider == "gemini-cli" else provider
display_provider(provider) == IF provider = "gemini-cli" THEN "gemini" ELSE provider

MaxCredentials == 3     \* credentials in the auth-file list of a quota build
MaxGroups == 2          \* quota groups a lookup returns

\* What a quota lookup, with the parsing of its result, can come to, by the
\* credential's provider: "forbidden" is error_code 403; "failed_empty" is a
\* failure whose error message is the empty text, which get_gemini_cli_quota
\* (for gemini and gemini-cli) and get_codex_quota pass on and
\* get_google_quota replaces for antigravity; "raises" is an exception of the
\* lookup or of the parser on an answer of another shape than they read (an
\* api_call result, an error, a rate_limit that is no object, a used_percent
\* that is no number), which nothing catches.
LookupsOf(provider) ==
    IF provider \in {"codex", "gemini", "gemini-cli"}
    THEN {"ok", "failed", "forbidden", "failed_empty", "raises"}
    ELSE {"ok", "failed", "forbidden", "raises"}

\* quota_result, with the number of groups the parser makes of a success.
NoLookup == [lookup |-> "none", n_groups |-> 0]
LookupAnswers(provider) ==
    {[lookup |-> l, n_groups |-> 0] : l \in LookupsOf(provider) \ {"ok"}}
    \cup {[lookup |-> "ok", n_groups |-> n] : n \in 0..MaxGroups}

\* "if not auth_index" and "if disabled or unavailable" passed: the lookup is awaited.
needs_lookup(auth) == auth.has_auth_index /\ ~auth.disabled

\* account_data of one credential: an error card on a missing auth_index, a
\* disabled credential, a failed lookup or an empty result; its quota groups
\* otherwise.  error tells whether account_data["error"] is a non-empty text:
\* a failed lookup gives quota_result.get("error", ...), which is the empty
\* text when the lookup returned an empty error message ("failed_empty").
account_data(auth, answer) ==
    LET failed == \/ ~needs_lookup(auth)
                  \/ answer.lookup # "ok"
                  \/ answer.n_groups = 0
        empty_text == needs_lookup(auth) /\ answer.lookup = "failed_empty"
    IN  [provider |-> display_provider(auth.provider),
         error    |-> failed /\ ~empty_text,
         n_quotas |-> IF failed THEN 0 ELSE answer.n_groups]

\* The credentials in the order the two loops visit them: provider_groups in
\* order of first appearance, credentials in their order inside each group.
RECURSIVE loop_order(_)
loop_order(auths) ==
    IF auths = <<>> THEN <<>>
    ELSE LET p == display_provider(Head(auths).provider)
             same(a) == display_provider(a.provider) = p
         IN  SelectSeq(auths, same) \o loop_order(SelectSeq(auths, LAMBDA a : ~same(a)))

NoData == [stats_type |-> "<none>"]

\* One run of _build_quota_data: the await it is suspended at, the credentials
\* the loops have still to visit, those visited with the answer each lookup
\* got, and the entries appended.
start_build(caller) ==
    [pc |-> "get_auth_files", caller |-> caller, todo |-> <<>>, seen |-> <<>>,
     accounts |-> <<>>, none |-> FALSE]

\* The loops from one await to the next: a credential without auth_index or
\* disabled gets its error card at once; the run is suspended again at the
\* first credential whose lookup is awaited, or returns after the last.
RECURSIVE run_to_await(_)
run_to_await(b) ==
    IF b.todo = <<>> THEN [b EXCEPT !.pc = "returned"]
    ELSE LET auth == Head(b.todo)
         IN  IF needs_lookup(auth) THEN [b EXCEPT !.pc = "lookup"]
             ELSE run_to_await([b EXCEPT
                     !.todo = Tail(@),
                     !.seen = Append(@, [auth |-> auth, answer |-> NoLookup]),
                     !.accounts = Append(@, account_data(auth, NoLookup))])

\* What get_auth_files returns: None, the JSON of the upstream with a list of
\* credentials under "files", or JSON of another shape (a list, files that are
\* no objects, a provider that is null).
AuthFilesAnswers == {"none", "files", "malformed"}

\* After "auth_data = await client.get_auth_files()": None when the fetch gave
\* nothing or the list holds no quota-capable credential; on JSON of another
\* shape auth_data.get / auth.get / .lower() raise before any lookup.
after_auth_files(b, answer, files) ==
    LET quota_auths == SelectSeq(files, LAMBDA a : a.provider \in QUOTA_SUPPORTED_PROVIDERS)
    IN  IF answer = "malformed" THEN [b EXCEPT !.pc = "raised"]
        ELSE IF answer = "none" \/ quota_auths = <<>>
        THEN [b EXCEPT !.pc = "returned", !.none = TRUE]
        ELSE run_to_await([b EXCEPT !.todo = loop_order(quota_auths)])

\* After "quota_result = await client.get_..._quota(...)": the entry of the
\* credential, or the exception of the lookup, which _build_quota_data does
\* not catch.
after_lookup(b, answer) ==
    LET auth == Head(b.todo)
    IN  IF answer.lookup = "raises"
        THEN [b EXCEPT !.pc = "raised",
                       !.seen = Append(@, [auth |-> auth, answer |-> answer])]
        ELSE run_to_await([b EXCEPT
                !.todo = Tail(@),
                !.seen = Append(@, [auth |-> auth, answer |-> answer]),
                !.accounts = Append(@, account_data(auth, answer))])

\* The value _build_quota_data returns (NoData for None).
payload(b, mrc) ==
    IF b.none THEN NoData
    ELSE [stats_type |-> "quota", accounts |-> b.accounts, max_render_count |-> mrc]

build_frame == <<SCALE_FACTOR, data, canvas, img, planner_runs, config, max_render_count,
                 auth_files, bar, tint, label, wrap, handler, parsed, font, session,
                 quota_call>>

\* A step of the build: the run is resumed and goes on to its next await.  When
\* it returns, its caller takes the payload: cpa_quota hands it to
\* _render_image, which has no await of its own, if there is one.
resume(b) ==
    /\ build' = b
    /\ IF b.pc # "returned"
       THEN UNCHANGED <<data, canvas, img, planner_runs>>
       ELSE LET d == payload(b, max_render_count)
            IN  IF b.caller = "cpa_quota" /\ d # NoData
                THEN render(d)
                ELSE data' = d /\ UNCHANGED <<canvas, img, planner_runs>>
    /\ UNCHANGED <<SCALE_FACTOR, config, max_render_count, auth_files, bar>>
    /\ UNCHANGED <<tint, label, wrap, handler, parsed, font, session, quota_call>>

\* auth_data = await client.get_auth_files(): answered with the list the
\* upstream holds at that moment, with other JSON, or not answered.
GetAuthFiles ==
    /\ build.pc = "get_auth_files"
    /\ \E answer \in AuthFilesAnswers : resume(after_auth_files(build, answer, auth_files))

\* quota_result = await client.get_codex_quota(...) / get_google_quota(...):
\* answered when the step is taken.
Lookup ==
    /\ build.pc = "lookup"
    /\ \E answer \in LookupAnswers(Head(build.todo).provider) :
          resume(after_lookup(build, answer))

\* Credential lists of the quota command: a block per provider, every
\* credential with an auth_index and enabled.
Credential(provider) ==
    [provider |-> provider, has_auth_index |-> TRUE, disabled |-> FALSE]

Block(provider, n) == [k \in 1..n |-> Credential(provider)]

AuthFileLists ==
    {Block("claude", x) \o Block("antigravity", a)
        \o Block("gemini-cli", g) \o Block("codex", c) :
        x \in 0..1, a \in 0..MaxAuthFiles, g \in 0..1, c \in 0..1}

Configs ==
    LET entries == {CfgMissing} \cup {CfgValue(v) : v \in 0..MaxCfgCap}
    IN  [max_render_antigravity : entries,
         max_render_gemini_cli  : entries,
         max_render_codex       : entries,
         high_res_render        : BOOLEAN]

InitPlugin ==
    /\ config \in Configs
    /\ max_render_count = main_init(config)
    /\ SCALE_FACTOR = renderer_init(config.high_res_render)
    /\ auth_files \in AuthFileLists
    /\ data = NoData
    /\ canvas = NoCanvas
    /\ img = NoImage
    /\ planner_runs = NoRuns
    /\ bar = NoBar
    /\ StepsIdle

\* The quota command with a client configured, up to its first await:
\* data = await self._build_quota_data(client).  The build then goes on step
\* by step, and the step on which it returns renders the payload.
CpaQuota ==
    /\ build = NoBuild
    /\ build' = start_build("cpa_quota")
    /\ UNCHANGED build_frame

\* An upstream that answers every lookup of one run alike: each succeeds with
\* one quota group, or each fails.
SteadyUpstream ==
    \A k \in 1..Len(build.seen) :
        LET answer == build.seen[k].answer
        IN  /\ answer \in {[lookup |-> "ok", n_groups |-> 1],
                           [lookup |-> "failed", n_groups |-> 0]}
            /\ answer = build.seen[1].answer

\* A lookup of the quota command, answered by the steady upstream.
LookupSteady == Lookup /\ SteadyUpstream'

NextPlugin == CpaQuota \/ GetAuthFiles \/ LookupSteady

SpecPlugin == InitPlugin /\ [][NextPlugin]_vars

(***************************************************************************)
(* _draw_progress_bar                                                      *)
(***************************************************************************)
\* A bar whose filled portion is drawn at every percent.
draw_progress_bar_always_filled(width, height, percent) ==
    [width |-> width, height |-> height, percent |-> percent, track |-> width,
     filled |-> Max(height, (width * percent) \div 100)]

\* A bar filled by the share that is used up instead of the share that remains.
draw_progress_bar_inverted(width, height, percent) ==
    [width |-> width, height |-> height, percent |-> percent, track |-> width,
     filled |-> IF percent > 0 THEN Max(height, (width * (100 - percent)) \div 100) ELSE 0]

\* _draw_progress_bar: the track spans the width; the filled portion is drawn
\* only "if percent > 0", prog_width = max(height, int(width * percent / 100)).
draw_progress_bar(width, height, percent) ==
    [width |-> width, height |-> height, percent |-> percent, track |-> width,
     filled |-> IF percent > 0 THEN Max(height, (width * percent) \div 100) ELSE 0]

\* (bar_width, bar height) of the four call sites, in logical pixels: overview
\* api rows, today model rows, quota account cards, dashboard quota rows.
BarSites == {<<60, 8>>, <<60, 10>>, <<(880 - 2 * 28 - 16) \div 2 - 2 * 14 - 100, 10>>,
             <<80, 8>>}

InitBar ==
    /\ SCALE_FACTOR \in {renderer_init(h) : h \in BOOLEAN}
    /\ bar = NoBar
    /\ data = NoData
    /\ canvas = NoCanvas
    /\ img = NoImage
    /\ planner_runs = NoRuns
    /\ config = NoConfig
    /\ max_render_count = <<>>
    /\ auth_files = <<>>
    /\ StepsIdle

DrawProgressBar ==
    /\ \E site \in BarSites, percent \in 0..100 :
          bar' = draw_progress_bar(site[1] * SCALE_FACTOR, site[2] * SCALE_FACTOR, percent)
    /\ UNCHANGED <<SCALE_FACTOR, data, canvas, img, planner_runs, config,
                   max_render_count, auth_files>>
    /\ UNCHANGED step_vars

NextBar == DrawProgressBar

SpecBar == InitBar /\ [][NextBar]_vars

(***************************************************************************)
(* Claims.                                                                 *)
(***************************************************************************)
Rendered == planner_runs["render"] = 1
RenderedAs(kind) == Rendered /\ canvas.planner = kind

\* The quota section of the payload just rendered (quota card or dashboard).
PayloadQuota == IF data.stats_type = "dashboard" THEN data.quota ELSE data
HasQuotaSection == RenderedAs("quota") \/ RenderedAs("dashboard")
GroupIndexes == 1..Len(canvas.groups)

\* The cap max_render_count holds for a payload provider (0 when it holds none).
CapFor(provider) ==
    LET key == IF provider = "gemini" THEN "gemini-cli" ELSE provider
        mrc == PayloadQuota.max_render_count
    IN  IF key \in DOMAIN mrc THEN mrc[key] ELSE 0

\* The payload's accounts of one provider, in payload order.
SuppliedOf(provider) ==
    SelectSeq(PayloadQuota.accounts, LAMBDA a : a.provider = provider)

\* C1: render runs exactly the planner matching the payload's tag, once, and
\* returns that planner's image (recognisable by its logical width); for any
\* other tag, a missing one included, it runs no planner and returns None.
Thm_C1_Dispatch ==
    Rendered =>
        LET tag == IF data.stats_type = "<absent>" THEN "" ELSE data.stats_type
        IN  IF tag \in {"overview", "today", "quota", "dashboard"}
            THEN /\ \A k \in Planners : planner_runs[k] = (IF k = tag THEN 1 ELSE 0)
                 /\ canvas.planner = tag
                 /\ ~img.is_none
                 /\ img.width = (CASE tag = "overview"  -> 520
                                   [] tag = "today"     -> 680
                                   [] tag = "quota"     -> 880
                                   [] tag = "dashboard" -> 800)
            ELSE /\ \A k \in Planners : planner_runs[k] = 0
                 /\ canvas = NoCanvas
                 /\ img.is_none

Wit_C1_MissingTag ==
    Rendered /\ data.stats_type = "<absent>" /\ img.is_none /\ planner_runs["overview"] = 0

\* C2: after every planner's pass the final cursor plus the bottom padding lies
\* within the canvas allocated before drawing, so the crop cuts no content.
CE_C2_CursorWithinCanvas ==
    (Rendered /\ canvas.planner \in Planners) =>
        canvas.y + canvas.padding <= canvas.height

\* C3: with supersample factor 3 the returned image measures the cropped canvas
\* divided by 3 (integer division) and is strictly smaller than the canvas
\* allocated before the crop, in both dimensions.
Thm_C3_Downscale ==
    (Rendered /\ SCALE_FACTOR = 3 /\ ~img.is_none) =>
        /\ 3 * img.width <= canvas.width /\ canvas.width < 3 * img.width + 3
        /\ 3 * img.height <= canvas.crop_height
        /\ canvas.crop_height < 3 * img.height + 3
        /\ img.width < canvas.width
        /\ img.height < canvas.height

Wit_C3_CroppedHighRes ==
    /\ RenderedAs("quota") /\ SCALE_FACTOR = 3 /\ ~img.is_none
    /\ canvas.crop_height < canvas.height
    /\ Len(data.accounts) = 3

\* One overview payload extends another: one more api entry, or auth_info added.
OverviewGrows(d, e) ==
    \/ e = [d EXCEPT !.n_apis = d.n_apis + 1]
    \/ /\ ~d.has_auth_info /\ e.has_auth_info
       /\ e.n_apis = d.n_apis /\ e.has_query_time = d.has_query_time
       /\ e.stats_type = d.stats_type

\* C4: rendering an overview payload and then the same payload with one more
\* api entry, or with auth_info added, never yields a shorter image.
Thm_C4_OverviewMonotone ==
    [][(RenderedAs("overview") /\ OverviewGrows(data, data')) =>
            img'.height >= img.height]_vars

Wit_C4_OverviewApisAndAuth ==
    /\ RenderedAs("overview") /\ data.n_apis = 8 /\ data.has_auth_info
    /\ data.n_providers = 2 /\ ~data.has_query_time
    /\ img.height = 276 + (36 + 8 * 32) + (28 + 2 * 26)

\* C5: the height of a today card is the baseline of the payload without
\* optional sections plus one contribution per section present, each depending
\* on that section alone: token_breakdown 92; model_stats 42 + 34 per row drawn
\* (at most 15); auth_stats 38 + 30 per row drawn (at most 8); populated
\* time_slots 122; absent, empty or all-zero sections 0.
Thm_C5_TodayAdditive ==
    RenderedAs("today") =>
        LET baseline == 224 + (IF data.has_query_time THEN 20 ELSE 0)
            rows(n, cap) == IF n <= cap THEN n ELSE cap
            tokens == IF data.has_token_breakdown THEN 92 ELSE 0
            models == IF data.n_model_stats > 0
                      THEN 42 + 34 * rows(data.n_model_stats, 15) ELSE 0
            auths  == IF data.n_auth_stats > 0
                      THEN 38 + 30 * rows(data.n_auth_stats, 8) ELSE 0
            slots  == IF data.time_slots = "populated" THEN 122 ELSE 0
        IN  /\ img.height = baseline + tokens + models + auths + slots
            /\ img.width = 680
            /\ (~data.has_token_breakdown /\ data.n_auth_stats = 0
                  /\ data.n_model_stats \in 1..15 /\ data.time_slots = "populated")
               => img.height - baseline = (42 + 34 * data.n_model_stats) + 122

Wit_C5_ThreeModelsFourSlots ==
    /\ RenderedAs("today") /\ data.n_model_stats = 3 /\ data.time_slots = "populated"
    /\ ~data.has_token_breakdown /\ data.n_auth_stats = 0 /\ data.has_query_time
    /\ img.height = 244 + 144 + 122

\* C6: a provider group of n accounts is laid out in ceil(n/2) rows; row r holds
\* the accounts at positions 2r-1 and 2r (the right slot is empty when n is odd
\* and r is last); a row is as high as the higher of its cards (error card 70,
\* card with q quotas 48 + 44q); the rows advance the cursor by the sum of the
\* row heights plus 14 per row.  A group within its cap is laid out whole.
Thm_C6_TwoColumnGrid ==
    RenderedAs("quota") =>
        \A k \in GroupIndexes :
            LET g == canvas.groups[k]
                n == Len(g.accs)
                need(a) == IF a.error THEN 70 ELSE 48 + 44 * a.n_quotas
                rowHeight(r) ==
                    LET l == need(g.accs[2 * r - 1])
                        rr == IF 2 * r <= n THEN need(g.accs[2 * r]) ELSE 0
                    IN  SCALE_FACTOR * (IF l >= rr THEN l ELSE rr)
            IN  /\ 2 * Len(g.rows) \in {n, n + 1}
                /\ \A r \in 1..Len(g.rows) :
                      /\ g.rows[r].left = 2 * r - 1
                      /\ g.rows[r].right = (IF 2 * r <= n THEN 2 * r ELSE 0)
                      /\ g.rows[r].height = rowHeight(r)
                /\ g.content_height =
                      SumSeq([r \in 1..Len(g.rows) |-> rowHeight(r) + 14 * SCALE_FACTOR])
                /\ (~g.footnote => g.accs = SuppliedOf(g.provider))

Wit_C6_FiveAccountsThreeRows ==
    /\ RenderedAs("quota") /\ Len(canvas.groups) = 1
    /\ Len(data.accounts) = 5 /\ Len(canvas.groups[1].accs) = 5
    /\ Len(canvas.groups[1].rows) = 3
    /\ canvas.groups[1].rows[3].right = 0
    /\ canvas.groups[1].rows[1].height = 136 * SCALE_FACTOR
    /\ data.accounts[1].error /\ data.accounts[2].n_quotas = 2

\* C7 as stated: every account of the payload is drawn, whatever max_render_count holds.
CE_C7_EveryAccountDrawn ==
    HasQuotaSection =>
        \A k \in GroupIndexes : canvas.groups[k].accs = SuppliedOf(canvas.groups[k].provider)

\* C7 as amended: render_quota and the dashboard's quota section draw, for each
\* provider, the first min(n, cap) of its n accounts in payload order when the
\* provider's cap in max_render_count is positive, and all n when the cap is 0
\* or absent; every provider of the payload gets a group.
Thm_C7_DrawnIsCappedPrefix ==
    HasQuotaSection =>
        /\ \A k \in GroupIndexes :
              LET g == canvas.groups[k]
                  supplied == SuppliedOf(g.provider)
                  cap == CapFor(g.provider)
                  drawn == IF cap > 0 /\ cap < Len(supplied) THEN cap ELSE Len(supplied)
              IN  g.accs = SubSeq(supplied, 1, drawn)
        /\ {canvas.groups[k].provider : k \in GroupIndexes}
              = {PayloadQuota.accounts[i].provider : i \in 1..Len(PayloadQuota.accounts)}
        /\ \A j, k \in GroupIndexes :
              canvas.groups[j].provider = canvas.groups[k].provider => j = k

Wit_C7_AccountsLeftOut ==
    /\ RenderedAs("quota") /\ Len(canvas.groups) = 2
    /\ Len(canvas.groups[1].accs) = 1 /\ Len(SuppliedOf(canvas.groups[1].provider)) = 2
    /\ Len(canvas.groups[2].accs) = 1

\* C8: a provider gets a truncation footnote exactly when it has more accounts
\* than its positive cap; the footnote's count is the number of the provider's
\* accounts not drawn, so drawn + reported = supplied; no footnote otherwise.
Thm_C8_FootnoteCount ==
    HasQuotaSection =>
        \A k \in GroupIndexes :
            LET g == canvas.groups[k]
                n == Len(SuppliedOf(g.provider))
                cap == CapFor(g.provider)
            IN  /\ g.footnote <=> (cap > 0 /\ n > cap)
                /\ g.footnote => (g.truncated >= 1 /\ Len(g.accs) + g.truncated = n)
                /\ ~g.footnote => (g.truncated = 0 /\ Len(g.accs) = n)

Wit_C8_FootnoteOfTwo ==
    /\ RenderedAs("quota") /\ Len(canvas.groups) = 1
    /\ canvas.groups[1].footnote /\ canvas.groups[1].truncated = 2
    /\ Len(canvas.groups[1].accs) = 1

\* A max_render_count key is configured with the number 0.
ConfiguredZero(key) ==
    LET entry == IF key = "antigravity" THEN config.max_render_antigravity
                 ELSE IF key = "gemini-cli" THEN config.max_render_gemini_cli
                 ELSE config.max_render_codex
    IN  entry.present /\ entry.value = 0

\* C9: a provider configured with max render count 0 is unlimited: the cap
\* that reaches the renderer is 0 and, however many accounts the provider has,
\* none is left out and it gets no truncation footnote.
CE_C9_ZeroIsUnlimited ==
    RenderedAs("quota") =>
        /\ \A k \in GroupIndexes :
              LET g == canvas.groups[k]
                  key == IF g.provider = "gemini" THEN "gemini-cli" ELSE g.provider
              IN  ConfiguredZero(key) => (~g.footnote /\ g.accs = SuppliedOf(g.provider))
        /\ \A key \in {"antigravity", "gemini-cli", "codex"} :
              ConfiguredZero(key) => data.max_render_count[key] = 0

\* The state that shows it: antigravity configured 0, eleven antigravity
\* accounts built, ten drawn and a footnote for the eleventh.
Wit_C9_TruncatedAtTen ==
    /\ RenderedAs("quota") /\ ConfiguredZero("antigravity")
    /\ Len(SuppliedOf("antigravity")) = 11
    /\ \E k \in GroupIndexes :
          /\ canvas.groups[k].provider = "antigravity"
          /\ Len(canvas.groups[k].accs) = 10
          /\ canvas.groups[k].footnote /\ canvas.groups[k].truncated = 1

BarDrawn == bar.width > 0

\* C10 as stated: at percent 0 the filled portion is as wide as the bar is high.
CE_C10_ZeroPercentFilledIsHeight ==
    (BarDrawn /\ bar.percent = 0) => bar.filled = bar.height

\* C10 as amended: at percent 0 no filled portion is drawn (filled width 0); for
\* every percent from 1 to 100 the filled width is max(height, width*percent/100
\* rounded down), so the minimum cap, the bar height, applies from percent 1 on.
Thm_C10_FilledWidth ==
    BarDrawn =>
        /\ bar.percent = 0 => bar.filled = 0
        /\ bar.percent >= 1 =>
              LET share == (bar.width * bar.percent) \div 100
              IN  /\ bar.filled >= bar.height
                  /\ bar.filled = (IF share > bar.height THEN share ELSE bar.height)

Wit_C10_EmptyBarAtZero ==
    BarDrawn /\ bar.percent = 0 /\ bar.filled = 0 /\ bar.height = 8 * SCALE_FACTOR

\* Two bars drawn one after the other at the same size, the second at a percent
\* at least as high.
SameBarHigherPercent ==
    /\ BarDrawn /\ bar'.width = bar.width /\ bar'.height = bar.height
    /\ bar.width >= bar.height
    /\ bar.percent <= bar'.percent

\* C11: for a bar at least as wide as it is high, the filled width never
\* decreases when the percent rises within 0..100, and at percent 100 the
\* filled portion is exactly as wide as the bar.
Thm_C11_FilledMonotone ==
    /\ []((BarDrawn /\ bar.width >= bar.height /\ bar.percent = 100)
            => bar.filled = bar.width)
    /\ [][SameBarHigherPercent => bar.filled <= bar'.filled]_vars

Wit_C11_FullBar ==
    BarDrawn /\ bar.width >= bar.height /\ bar.percent = 100 /\ bar.filled = bar.width

(***************************************************************************)
(* Colour scales: remaining-quota percent and success rate.                *)
(***************************************************************************)
PercentSlack == 5       \* a percent ranges over -PercentSlack..100 + PercentSlack
MaxRateTenths == 1000   \* a success rate, in tenths of a percent (round(x, 1))

\* A card whose top tier starts above 80 instead of at 80.
account_card_bar_color_exclusive(percent) ==
    IF percent > 80 THEN "accent_green"
    ELSE IF percent >= 50 THEN "accent_yellow"
    ELSE IF percent >= 20 THEN "accent_orange"
    ELSE "accent_red"

\* _render_account_card: bar_color of one quota entry.
account_card_bar_color(percent) ==
    IF percent >= 80 THEN "accent_green"
    ELSE IF percent >= 50 THEN "accent_yellow"
    ELSE IF percent >= 20 THEN "accent_orange"
    ELSE "accent_red"

\* render_dashboard: bar_color of one quota line.
dashboard_bar_color(percent) ==
    IF percent >= 80 THEN "accent_green"
    ELSE IF percent >= 50 THEN "accent_yellow"
    ELSE IF percent >= 20 THEN "accent_orange"
    ELSE "accent_red"

\* _build_quota_data: status_icon, color and level of one quota group.  The
\* icons are named by their colour.
quota_status(percent) ==
    IF percent >= 80
    THEN [status_icon |-> "green circle", color |-> "#10b981", level |-> "high"]
    ELSE IF percent >= 50
    THEN [status_icon |-> "yellow circle", color |-> "#f59e0b", level |-> "medium"]
    ELSE IF percent >= 20
    THEN [status_icon |-> "orange circle", color |-> "#f97316", level |-> "medium"]
    ELSE [status_icon |-> "red circle", color |-> "#ef4444", level |-> "low"]

\* _get_quota_status: status_icon of one quota line of the text fallback.
text_status_icon(percent) ==
    IF percent >= 80 THEN "green circle"
    ELSE IF percent >= 50 THEN "yellow circle"
    ELSE IF percent >= 20 THEN "orange circle"
    ELSE "red circle"

\* A success rate coloured on the four-tier scale of the quota percent.
overview_rate_color_four_tier(rate) ==
    IF rate >= 800 THEN "accent_green"
    ELSE IF rate >= 500 THEN "accent_yellow"
    ELSE IF rate >= 200 THEN "accent_orange"
    ELSE "accent_red"

\* render_overview: rate_color.  The rate is in tenths of a percent.
overview_rate_color(rate) ==
    IF rate >= 950 THEN "accent_green"
    ELSE IF rate >= 800 THEN "accent_yellow"
    ELSE "accent_red"

\* render_today: rate_color.
today_rate_color(rate) ==
    IF rate >= 950 THEN "accent_green"
    ELSE IF rate >= 800 THEN "accent_yellow"
    ELSE "accent_red"

\* render_dashboard: the colour of the success-rate tile in metrics.
dashboard_rate_tile_color(rate) == "accent_green"

Percents == (0 - PercentSlack)..(100 + PercentSlack)
Rates == 0..MaxRateTenths

core_vars == <<SCALE_FACTOR, data, canvas, img, planner_runs, config,
               max_render_count, auth_files, bar>>

\* A renderer and a plugin that have done nothing yet.
CoreIdle ==
    /\ SCALE_FACTOR \in {renderer_init(h) : h \in BOOLEAN}
    /\ data = NoData
    /\ canvas = NoCanvas
    /\ img = NoImage
    /\ planner_runs = NoRuns
    /\ config = NoConfig
    /\ max_render_count = <<>>
    /\ auth_files = <<>>
    /\ bar = NoBar

InitTint == CoreIdle /\ StepsIdle

\* One quota entry with this percent goes through _build_quota_data, the quota
\* card, the dashboard and the text fallback.
TintQuota ==
    /\ \E percent \in Percents :
          tint' = [kind      |-> "quota",
                   value     |-> percent,
                   status    |-> quota_status(percent),
                   card      |-> account_card_bar_color(percent),
                   dashboard |-> dashboard_bar_color(percent),
                   text      |-> text_status_icon(percent)]
    /\ UNCHANGED <<core_vars, service_vars, label, wrap, handler, parsed>>

\* One success rate is shown by the overview card, the today card and the dashboard.
TintRate ==
    /\ \E rate \in Rates :
          tint' = [kind      |-> "rate",
                   value     |-> rate,
                   overview  |-> overview_rate_color(rate),
                   today     |-> today_rate_color(rate),
                   dashboard |-> dashboard_rate_tile_color(rate)]
    /\ UNCHANGED <<core_vars, service_vars, label, wrap, handler, parsed>>

NextTint == TintQuota \/ TintRate

SpecTint == InitTint /\ [][NextTint]_vars

\* The tier of a percent on the four-tier scale, and the tier a colour or an icon stands for.
Tier(percent) ==
    IF percent >= 80 THEN "healthy"
    ELSE IF percent >= 50 THEN "caution"
    ELSE IF percent >= 20 THEN "warning"
    ELSE "critical"

TierOfColor(color) ==
    CASE color = "accent_green"  -> "healthy"
      [] color = "accent_yellow" -> "caution"
      [] color = "accent_orange" -> "warning"
      [] color = "accent_red"    -> "critical"

TierOfIcon(icon) ==
    CASE icon = "green circle"  -> "healthy"
      [] icon = "yellow circle" -> "caution"
      [] icon = "orange circle" -> "warning"
      [] icon = "red circle"    -> "critical"

\* C12: for every integer percent the quota card's bar colour, the dashboard's
\* bar colour and the status icon chosen upstream stand for the same tier, the
\* one given by inclusive lower bounds 80 / 50 / 20 (79 caution, 80 healthy).
Thm_C12_QuotaTiersAgree ==
    tint.kind = "quota" =>
        /\ TierOfColor(tint.card) = Tier(tint.value)
        /\ TierOfColor(tint.dashboard) = Tier(tint.value)
        /\ TierOfIcon(tint.status.status_icon) = Tier(tint.value)
        /\ TierOfIcon(tint.text) = Tier(tint.value)
        /\ tint.value = 79 => tint.card = "accent_yellow"
        /\ tint.value = 80 => tint.card = "accent_green"

Wit_C12_EightyIsHealthy ==
    /\ tint.kind = "quota" /\ tint.value = 80
    /\ tint.card = "accent_green" /\ tint.dashboard = "accent_green"
    /\ tint.status.status_icon = "green circle"

\* C13 as stated: the success rate shown by the overview card, the today card
\* and the dashboard tile has the colour of its tier on the four-tier scale.
CE_C13_RateOnFourTiers ==
    tint.kind = "rate" =>
        /\ TierOfColor(tint.overview) = Tier(tint.value \div 10)
        /\ TierOfColor(tint.today) = Tier(tint.value \div 10)
        /\ TierOfColor(tint.dashboard) = Tier(tint.value \div 10)

\* C13 as amended: the overview and the today card colour the success rate on
\* a scale of three tiers, green from 95, yellow from 80 up to 95, red below
\* 80; the dashboard tile is green whatever the rate.
Thm_C13_RateOnThreeTiers ==
    tint.kind = "rate" =>
        LET three == IF tint.value >= 950 THEN "accent_green"
                     ELSE IF tint.value >= 800 THEN "accent_yellow"
                     ELSE "accent_red"
        IN  /\ tint.overview = three
            /\ tint.today = three
            /\ tint.dashboard = "accent_green"

\* A rate of 85.0: healthy on the four-tier scale, yet drawn yellow.
Wit_C13_EightyFiveIsYellow ==
    /\ tint.kind = "rate" /\ tint.value = 850
    /\ tint.overview = "accent_yellow" /\ tint.today = "accent_yellow"
    /\ tint.dashboard = "accent_green"

(***************************************************************************)
(* _render_account_card: fitting the e-mail and a quota label into a slot. *)
(* A text is a sequence of glyphs; its measured width is taken as the sum  *)
(* of the glyphs' advances at the font size.                               *)
(***************************************************************************)
MaxLabelLen == 12       \* longest text fitted into a slot
NarrowTenths == 5       \* advance of a narrow glyph (a Latin letter), tenths of an em
WideTenths == 50        \* advance of a wide glyph (a ligature of several ems), tenths of an em
DotTenths == 3          \* advance of the full stop, tenths of an em
SpaceTenths == 3        \* advance of the space, tenths of an em
StarTenths == 4         \* advance of the asterisk, tenths of an em
HashTenths == 6         \* advance of the number sign, tenths of an em

Glyphs == {"narrow", "wide"}

advance(glyph, font_size) ==
    LET tenths == CASE glyph = "narrow" -> NarrowTenths
                    [] glyph = "wide"   -> WideTenths
                    [] glyph = "."      -> DotTenths
                    [] glyph = " "      -> SpaceTenths
                    [] glyph = "*"      -> StarTenths
                    [] glyph = "#"      -> HashTenths
    IN  (tenths * font_size) \div 10

\* _get_text_size(draw, text, font)[0]
text_width(text, font_size) ==
    SumSeq([k \in 1..Len(text) |-> advance(text[k], font_size)])

\* text[:-3]: with "..." appended the text keeps its length.
drop_last_three(text) == SubSeq(text, 1, Len(text) - 3)

\* text[:-4]
drop_last_four(text) == SubSeq(text, 1, Len(text) - 4)

\* A loop that keeps shortening down to four characters.
RECURSIVE truncate_to_four(_, _, _, _)
truncate_to_four(display, font_size, max_width, floor) ==
    IF text_width(display, font_size) > max_width /\ Len(display) > 4
    THEN truncate_to_four(drop_last_four(display) \o <<".", ".", ".">>,
                          font_size, max_width, floor)
    ELSE display

\* while width > max_width and len(display) > floor: display = display[:-4] + "..."
RECURSIVE truncate(_, _, _, _)
truncate(display, font_size, max_width, floor) ==
    IF text_width(display, font_size) > max_width /\ Len(display) > floor
    THEN truncate(drop_last_four(display) \o <<".", ".", ".">>,
                  font_size, max_width, floor)
    ELSE display

\* card_width of render_quota.
card_width(scale) == (880 * scale - (28 * scale) * 2 - 16 * scale) \div 2

\* The e-mail slot: font_medium, max_email_width, floor 10.
email_slot(scale) ==
    [slot |-> "email", font_size |-> 15 * scale, floor |-> 10,
     budget |-> card_width(scale) - (14 * scale) * 3 - 10 * scale]

\* The label slot of a quota entry: font_small, max_label_width, floor 8.
label_slot(scale) ==
    [slot |-> "label", font_size |-> 13 * scale, floor |-> 8,
     budget |-> card_width(scale) - (14 * scale) * 2 - 80 * scale]

fit(slot, text) ==
    [slot |-> slot.slot, font_size |-> slot.font_size, floor |-> slot.floor,
     budget |-> slot.budget, text |-> text,
     drawn |-> truncate(text, slot.font_size, slot.budget, slot.floor)]

Texts == SeqsUpTo(Glyphs, MaxLabelLen)

\* An account card about to be drawn: the text waits to be fitted.
InitLabel ==
    /\ CoreIdle
    /\ label \in [slot : {"pending"}, text : Texts]
    /\ tint = NoTint /\ wrap = NoWrap /\ handler = NoHandler /\ parsed = NoParsed
    /\ ServicesIdle

FitEmail ==
    /\ label.slot = "pending"
    /\ label' = fit(email_slot(SCALE_FACTOR), label.text)
    /\ UNCHANGED <<core_vars, service_vars, tint, wrap, handler, parsed>>

FitLabel ==
    /\ label.slot = "pending"
    /\ label' = fit(label_slot(SCALE_FACTOR), label.text)
    /\ UNCHANGED <<core_vars, service_vars, tint, wrap, handler, parsed>>

NextLabel == FitEmail \/ FitLabel

SpecLabel == InitLabel /\ [][NextLabel]_vars

Fitted == label.slot \in {"email", "label"}
LabelWidth(text) == text_width(text, label.font_size)

\* C14 as stated: a text no shorter than the floor and wider than the budget is
\* drawn with a width within the budget; a text that fits is drawn unchanged.
CE_C14_DrawnWithinBudget ==
    Fitted =>
        /\ (Len(label.text) >= label.floor /\ LabelWidth(label.text) > label.budget)
              => LabelWidth(label.drawn) <= label.budget
        /\ LabelWidth(label.text) <= label.budget => label.drawn = label.text

\* C14 as amended: a text that fits, or that is no longer than the floor, is
\* drawn unchanged.  A longer text that is too wide is drawn as a prefix of
\* itself followed by "...", no shorter than the floor; it is the longest such
\* string within the budget or, when there is none, the one of floor length,
\* which may still be wider than the budget.
Thm_C14_DrawnFitsOrAtFloor ==
    Fitted =>
        LET n == Len(label.text)
            cut(k) == SubSeq(label.text, 1, k) \o <<".", ".", ".">>
        IN  IF LabelWidth(label.text) <= label.budget \/ n <= label.floor
            THEN label.drawn = label.text
            ELSE \E k \in (label.floor - 3)..(n - 4) :
                    /\ label.drawn = cut(k)
                    /\ LabelWidth(cut(k)) <= label.budget \/ k + 3 = label.floor
                    /\ \A j \in (k + 1)..(n - 4) : LabelWidth(cut(j)) > label.budget

\* A text cut to fit: twelve glyphs too wide for the e-mail slot, drawn as a
\* shorter prefix and "..." within the budget.
Wit_C14_CutToFit ==
    /\ Fitted /\ label.slot = "email" /\ Len(label.text) = 12
    /\ LabelWidth(label.text) > label.budget
    /\ label.drawn # label.text
    /\ LabelWidth(label.drawn) <= label.budget

(***************************************************************************)
(* The truncation loop of _render_account_card, one iteration per step.    *)
(***************************************************************************)
\* display = text; width = _get_text_size(display)
enter_loop(slot, text) ==
    [slot |-> slot.slot, pc |-> "loop", font_size |-> slot.font_size,
     floor |-> slot.floor, budget |-> slot.budget, text |-> text,
     display |-> text, iterations |-> 0]

\* while width > max_width and len(display) > floor
loop_condition(l) ==
    text_width(l.display, l.font_size) > l.budget /\ Len(l.display) > l.floor

trunc_frame == <<core_vars, service_vars, tint, wrap, handler, parsed>>

StartEmail ==
    /\ label.slot = "pending"
    /\ label' = enter_loop(email_slot(SCALE_FACTOR), label.text)
    /\ UNCHANGED trunc_frame

StartLabel ==
    /\ label.slot = "pending"
    /\ label' = enter_loop(label_slot(SCALE_FACTOR), label.text)
    /\ UNCHANGED trunc_frame

\* display = display[:-4] + "..."
Shorten ==
    /\ label.slot \in {"email", "label"} /\ label.pc = "loop"
    /\ loop_condition(label)
    /\ label' = [label EXCEPT !.display = drop_last_four(@) \o <<".", ".", ".">>,
                              !.iterations = @ + 1]
    /\ UNCHANGED trunc_frame

\* draw.text(..., display, ...)
DrawText ==
    /\ label.slot \in {"email", "label"} /\ label.pc = "loop"
    /\ ~loop_condition(label)
    /\ label' = [label EXCEPT !.pc = "drawn"]
    /\ UNCHANGED trunc_frame

NextTrunc == StartEmail \/ StartLabel \/ Shorten \/ DrawText

\* The drawing code runs to its end once started: every enabled step is taken.
SpecTrunc == InitLabel /\ [][NextTrunc]_vars /\ WF_vars(NextTrunc)

InLoop == label.slot \in {"email", "label"} /\ label.pc = "loop"
TextDrawn == label.slot \in {"email", "label"} /\ label.pc = "drawn"

\* C21: the truncation loop terminates for every text and budget: the text is
\* eventually drawn; every iteration strictly shortens the candidate; and the
\* loop leaves, candidate untouched, as soon as the candidate fits or is no
\* longer than the floor (10 for the account name, 8 for a quota label).
Thm_C21_TruncationTerminates ==
    /\ <>TextDrawn
    /\ [][(InLoop /\ label'.pc = "loop")
             => Len(label'.display) < Len(label.display)]_vars
    /\ [][(InLoop /\ (text_width(label.display, label.font_size) <= label.budget
                       \/ Len(label.display) <= label.floor))
             => (label'.pc = "drawn" /\ label'.display = label.display)]_vars
    /\ [](InLoop => label.floor = (IF label.slot = "email" THEN 10 ELSE 8))

\* A quota label of twelve wide glyphs drawn after four iterations, at the floor.
Wit_C21_FourIterations ==
    /\ TextDrawn /\ label.slot = "label" /\ Len(label.text) = 12
    /\ label.iterations = 4 /\ Len(label.display) = 8

(***************************************************************************)
(* _wrap_text.  A text is a sequence of characters: glyphs, the space and  *)
(* the line feed "\\n".  A line is a sequence of characters, "" is <<>>.    *)
(***************************************************************************)
MaxWrapLen == 6         \* longest text wrapped

WrapChars == {"narrow", "wide", " ", "\\n"}

\* The budgets _wrap_text is tried with, besides the one of render_dashboard.
WrapBudgets == {8, 25, 130}

\* text.split('\\n')
RECURSIVE split_lines(_, _)
split_lines(text, current) ==
    IF text = <<>> THEN <<current>>
    ELSE IF Head(text) = "\\n" THEN <<current>> \o split_lines(Tail(text), <<>>)
    ELSE split_lines(Tail(text), Append(current, Head(text)))

\* paragraph.strip(): what is left is non-empty iff some character is not whitespace.
strip_is_empty(paragraph) == \A k \in 1..Len(paragraph) : paragraph[k] = " "

\* A loop that starts the next line empty, dropping the character that did not fit.
RECURSIVE wrap_chars_dropping(_, _, _, _)
wrap_chars_dropping(chars, current_line, font_size, max_width) ==
    IF chars = <<>>
    THEN IF current_line # <<>> THEN <<current_line>> ELSE <<>>
    ELSE LET test_line == Append(current_line, Head(chars))
         IN  IF text_width(test_line, font_size) <= max_width
             THEN wrap_chars_dropping(Tail(chars), test_line, font_size, max_width)
             ELSE (IF current_line # <<>> THEN <<current_line>> ELSE <<>>)
                  \o wrap_chars_dropping(Tail(chars), <<>>, font_size, max_width)

\* A loop that never breaks the line.
wrap_chars_unbroken(chars, current_line, font_size, max_width) ==
    IF chars = <<>> THEN <<>> ELSE <<chars>>

\* "for char in words": the lines appended from here on, the last one included.
RECURSIVE wrap_chars(_, _, _, _)
wrap_chars(chars, current_line, font_size, max_width) ==
    IF chars = <<>>
    THEN IF current_line # <<>> THEN <<current_line>> ELSE <<>>
    ELSE LET test_line == Append(current_line, Head(chars))
         IN  IF text_width(test_line, font_size) <= max_width
             THEN wrap_chars(Tail(chars), test_line, font_size, max_width)
             ELSE (IF current_line # <<>> THEN <<current_line>> ELSE <<>>)
                  \o wrap_chars(Tail(chars), <<Head(chars)>>, font_size, max_width)

\* The lines of one paragraph.
wrap_paragraph(paragraph, font_size, max_width) ==
    IF strip_is_empty(paragraph) THEN << <<>> >>
    ELSE wrap_chars(paragraph, <<>>, font_size, max_width)

\* Concatenation of a sequence of sequences.
RECURSIVE Flatten(_)
Flatten(seqs) == IF seqs = <<>> THEN <<>> ELSE Head(seqs) \o Flatten(Tail(seqs))

\* _wrap_text: the paragraphs, the lines of each, and the list returned.
wrap_text(text, font_size, max_width) ==
    LET paragraphs == split_lines(text, <<>>)
        per == [k \in 1..Len(paragraphs) |->
                   wrap_paragraph(paragraphs[k], font_size, max_width)]
    IN  [done |-> TRUE, text |-> text, font_size |-> font_size, max_width |-> max_width,
         paragraphs |-> paragraphs, lines_of |-> per, lines |-> Flatten(per)]

\* max_text_width of render_dashboard.
dashboard_text_width(scale) == 800 * scale - (24 * scale) * 2 - 16 * scale

\* An analysis text about to be wrapped, at font_tiny.
InitWrap ==
    /\ CoreIdle
    /\ wrap \in [done : {FALSE}, text : SeqsUpTo(WrapChars, MaxWrapLen),
                 max_width : WrapBudgets \cup {dashboard_text_width(s) : s \in {2, 3}}]
    /\ tint = NoTint /\ label = NoLabel /\ handler = NoHandler /\ parsed = NoParsed
    /\ ServicesIdle

WrapText ==
    /\ ~wrap.done
    /\ wrap' = wrap_text(wrap.text, 10 * SCALE_FACTOR, wrap.max_width)
    /\ UNCHANGED <<core_vars, service_vars, tint, label, handler, parsed>>

NextWrap == WrapText

SpecWrap == InitWrap /\ [][NextWrap]_vars

WrapWidth(line) == text_width(line, wrap.font_size)
ParagraphIndexes == 1..Len(wrap.paragraphs)

\* C15 as stated: the lines produced for a paragraph, concatenated, are the
\* paragraph, whitespace-only paragraphs included.
CE_C15_RoundTripEveryParagraph ==
    wrap.done =>
        \A k \in ParagraphIndexes : Flatten(wrap.lines_of[k]) = wrap.paragraphs[k]

\* C15 as amended: the lines of a paragraph holding a non-whitespace character,
\* concatenated, are the paragraph; a paragraph that is empty or whitespace
\* only gives the single line "", its whitespace dropped; the list returned is
\* the paragraphs' lines in order.
Thm_C15_RoundTripNonBlank ==
    wrap.done =>
        /\ \A k \in ParagraphIndexes :
              IF strip_is_empty(wrap.paragraphs[k])
              THEN wrap.lines_of[k] = << <<>> >>
              ELSE Flatten(wrap.lines_of[k]) = wrap.paragraphs[k]
        /\ wrap.lines = Flatten(wrap.lines_of)

\* A paragraph broken into several lines.
Wit_C15_ParagraphOfThreeLines ==
    /\ wrap.done /\ Len(wrap.paragraphs) = 1 /\ Len(wrap.lines) = 3
    /\ Len(wrap.text) = MaxWrapLen
    /\ Flatten(wrap.lines) = wrap.text

\* C16: every line returned is within the budget unless it is one character
\* that alone is wider than the budget; a character wider than the budget
\* stands alone on its line; a paragraph that is not blank gives no empty line.
Thm_C16_LinesWithinBudget ==
    wrap.done =>
        /\ \A i \in 1..Len(wrap.lines) :
              LET line == wrap.lines[i]
              IN  /\ WrapWidth(line) <= wrap.max_width \/ Len(line) = 1
                  /\ \A j \in 1..Len(line) :
                        WrapWidth(<<line[j]>>) > wrap.max_width => Len(line) = 1
        /\ \A k \in ParagraphIndexes :
              ~strip_is_empty(wrap.paragraphs[k]) =>
                  /\ wrap.lines_of[k] # <<>>
                  /\ \A i \in 1..Len(wrap.lines_of[k]) : wrap.lines_of[k][i] # <<>>

\* A character wider than the budget alone on its line, between two lines that fit.
Wit_C16_WideCharAlone ==
    /\ wrap.done /\ Len(wrap.lines) = 3
    /\ wrap.lines[2] = <<"wide">> /\ WrapWidth(wrap.lines[2]) > wrap.max_width
    /\ Len(wrap.lines[1]) = 2 /\ WrapWidth(wrap.lines[1]) <= wrap.max_width

(***************************************************************************)
(* The image commands: cpa, cpa today, cpa今日, cpa额度, cpa总览.            *)
(* A run is the handler's steps from one await or yield to the next; other *)
(* tasks run in between.  A request of the client is answered when the     *)
(* handler is resumed from it, each time with what the upstream holds      *)
(* then; the renderer's outcome and the configuration are fixed when the   *)
(* run starts.                                                             *)
(***************************************************************************)
MaxLookups == 2         \* credentials in a list the auth-file request returns

\* cpa_stats (overview branch), cpa_stats (today branch), cpa_today, cpa_quota, cpa_dashboard.
Commands == {"cpa", "cpa today", "cpa_today", "cpa_quota", "cpa_dashboard"}

\* _render_image: the renderer returns an image that is saved, returns None,
\* raises, or the saved file is missing or not larger than 1024 bytes.
RenderOutcomes == {"image", "none", "raises", "save_failed", "too_small"}

\* _render_image: the path, or None on every outcome but a saved image.
render_image(outcome) == IF outcome = "image" THEN "path" ELSE "None"

\* event.plain_result / event.image_result
plain_result(content) == [kind |-> "text", content |-> content]
image_result(path) == [kind |-> "image", content |-> path]

\* The text _get_overview, _get_today_stats and _get_quota_status return: the
\* data built again and formatted, the failure message when the fetch gave
\* nothing, or (_get_quota_status) the notice that no account supports quotas.
fallback_text(refetch) ==
    IF refetch = "ok" THEN "summary"
    ELSE IF refetch = "empty" THEN "no accounts"
    ELSE "fetch failed"

\* enable_llm_analysis and _get_llm_provider(): off, on without a provider, on.
LlmSettings == {"off", "no_provider", "on"}

\* self.max_render_count as Main.__init__ makes it of a configuration.
HandlerCaps == {main_init(cfg) : cfg \in Configs}

\* The credentials of a list a handler gets: enabled or disabled, of a provider
\* with quotas or of another.
HandlerCredentials ==
    {Credential("claude")}
    \cup [provider : {"antigravity", "codex"}, has_auth_index : {TRUE}, disabled : BOOLEAN]

HandlerLists == SeqsUpTo(HandlerCredentials, MaxLookups)

\* What get_usage returns: None, the JSON of the upstream with an object under
\* "usage", or JSON of another shape.
UsageAnswers == {"ok", "none", "malformed"}

\* quota_auths of _build_quota_data and _get_quota_status
quota_auths_of(files) ==
    SelectSeq(files, LAMBDA a : a.provider \in QUOTA_SUPPORTED_PROVIDERS)

\* The lookups _build_quota_data awaits: one per credential with an auth_index
\* that is not disabled.
build_lookups(files) == Len(SelectSeq(quota_auths_of(files), needs_lookup))

\* _get_quota_status: auths_to_show of every provider group, the first
\* max_count credentials of a group that holds more.
RECURSIVE auths_to_show(_, _)
auths_to_show(auths, mrc) ==
    IF auths = <<>> THEN <<>>
    ELSE LET p == display_provider(Head(auths).provider)
             same(a) == display_provider(a.provider) = p
             group == SelectSeq(auths, same)
             max_count == caps_get(mrc, config_key(p))
             shown == IF max_count > 0 /\ Len(group) > max_count
                      THEN SubSeq(group, 1, max_count) ELSE group
         IN  shown \o auths_to_show(SelectSeq(auths, LAMBDA a : ~same(a)), mrc)

\* The lookups _get_quota_status awaits.
status_lookups(files, mrc) ==
    Len(SelectSeq(auths_to_show(quota_auths_of(files), mrc), needs_lookup))

InitHandler ==
    /\ CoreIdle
    /\ handler \in [pc : {"start"}, command : Commands, client : BOOLEAN,
                    llm : LlmSettings, max_render_count : HandlerCaps,
                    render : RenderOutcomes, phase : {"build"},
                    usage : {"unset"}, left : {0}, data : {"unset"},
                    refetch : {"unset"}, analysis : {"unset"}, yields : {<<>>}]
    /\ tint = NoTint /\ label = NoLabel /\ wrap = NoWrap /\ parsed = NoParsed
    /\ ServicesIdle

handler_frame == <<core_vars, service_vars, tint, label, wrap, parsed>>

\* The first request the command's build awaits, and its text fallback's:
\* get_auth_files for the quota command, get_usage for the others.
first_await(command) == IF command = "cpa_quota" THEN "get_auth_files" ELSE "get_usage"

\* The handler yields its final result and ends.
yield_last(h, result) == [h EXCEPT !.pc = "done", !.yields = Append(@, result)]

\* cpa_stats, cpa_today, cpa_quota with the build's result (None or the data):
\* the render, which has no await, and the image yielded; without an image the
\* handler goes on to the fallback and is suspended at its first request.
with_data(h, d) ==
    LET image_path == IF d = "ok" THEN render_image(h.render) ELSE "None"
        h2 == [h EXCEPT !.data = d]
    IN  IF image_path # "None"
        THEN yield_last(h2, image_result(image_path))
        ELSE [h2 EXCEPT !.phase = "fallback", !.pc = first_await(h.command),
                        !.usage = "unset", !.left = 0]

\* The fallback's text is at hand and is yielded.
with_text(h, r) ==
    yield_last([h EXCEPT !.refetch = r], plain_result(fallback_text(r)))

\* The build of cpa_stats, cpa_today or cpa_quota, or the one its fallback
\* awaits, has returned.
built(h, d) == IF h.phase = "build" THEN with_data(h, d) ELSE with_text(h, d)

\* cpa_dashboard from "if not today_data" on: nothing is awaited any more.
dashboard_end(h) ==
    IF h.data # "ok" THEN yield_last(h, plain_result("fetch failed"))
    ELSE LET image_path == render_image(h.render)
         IN  IF image_path # "None"
             THEN yield_last(h, image_result(image_path))
             ELSE yield_last(h, plain_result("render failed"))

\* cpa_dashboard once _build_quota_data has returned: the analysis is awaited
\* when it is enabled, there is today_data and a provider is found.
after_quota(h) ==
    IF h.llm = "on" /\ h.data = "ok" THEN [h EXCEPT !.pc = "text_chat"]
    ELSE dashboard_end(h)

\* The quota build, or _get_quota_status, has come to its result.
quota_built(h, d) ==
    IF h.command = "cpa_dashboard" THEN after_quota(h)
    ELSE built(h, IF d = "empty" /\ h.phase = "build" THEN "none" ELSE d)

\* client = self._get_client(); without one the handler reports it and returns.
\* cpa_dashboard then yields the notice that the dashboard is being generated;
\* the others go on to their first request.
GetClient ==
    /\ handler.pc = "start"
    /\ handler' =
          IF ~handler.client
          THEN yield_last(handler, plain_result("not configured"))
          ELSE IF handler.command = "cpa_dashboard"
          THEN [handler EXCEPT !.pc = "progress",
                               !.yields = Append(@, plain_result("progress"))]
          ELSE [handler EXCEPT !.pc = first_await(handler.command)]
    /\ UNCHANGED handler_frame

\* cpa_dashboard resumed from its first yield, up to
\* today_data = await self._build_today_data(client).
AfterProgress ==
    /\ handler.pc = "progress"
    /\ handler' = [handler EXCEPT !.pc = "get_usage"]
    /\ UNCHANGED handler_frame

\* usage_data = await client.get_usage() answered.  _build_overview_data goes
\* on to get_auth_files whatever it got; _build_today_data returns, or raises
\* on JSON of another shape, which no handler catches; cpa_dashboard goes on to
\* _build_quota_data.
AwaitUsage ==
    /\ handler.pc = "get_usage"
    /\ \E answer \in UsageAnswers :
          handler' =
             IF handler.command = "cpa"
             THEN [handler EXCEPT !.usage = answer, !.pc = "get_auth_files"]
             ELSE IF answer = "malformed" THEN [handler EXCEPT !.pc = "raised"]
             ELSE IF handler.command = "cpa_dashboard"
             THEN [handler EXCEPT !.data = answer, !.pc = "get_auth_files"]
             ELSE built(handler, answer)
    /\ UNCHANGED handler_frame

\* _build_overview_data after both requests: None without usage data, before
\* anything is read; an exception on usage data or auth data of another shape.
overview_built(h, answer) ==
    IF h.usage = "none" THEN built(h, "none")
    ELSE IF h.usage = "malformed" \/ answer = "malformed" THEN [h EXCEPT !.pc = "raised"]
    ELSE built(h, "ok")

\* _build_quota_data and _get_quota_status after the request: they return at
\* once without an answer or a quota-capable credential, raise on JSON of
\* another shape, and otherwise go on to the first lookup; the build looks up
\* every credential, the text those within the provider's max_render_count.
quota_listed(h, answer, files) ==
    LET n == IF h.phase = "build" THEN build_lookups(files)
             ELSE status_lookups(files, h.max_render_count)
    IN  IF answer = "malformed" THEN [h EXCEPT !.pc = "raised"]
        ELSE IF answer = "none" THEN quota_built(h, "none")
        ELSE IF quota_auths_of(files) = <<>> THEN quota_built(h, "empty")
        ELSE IF n = 0 THEN quota_built(h, "ok")
        ELSE [h EXCEPT !.pc = "lookup", !.left = n]

\* auth_data = await client.get_auth_files() answered, with the list the
\* upstream holds at that moment.
AwaitAuthFiles ==
    /\ handler.pc = "get_auth_files"
    /\ \E answer \in AuthFilesAnswers, files \in HandlerLists :
          /\ answer # "files" => files = <<>>
          /\ handler' =
                IF handler.command = "cpa" THEN overview_built(handler, answer)
                ELSE quota_listed(handler, answer, files)
    /\ UNCHANGED handler_frame

\* quota_result = await client.get_codex_quota(...) / get_google_quota(...)
\* answered: an entry or a line for the credential whether the lookup
\* succeeded or failed, or the exception of the lookup or of the parser,
\* which no handler catches.
AwaitLookup ==
    /\ handler.pc = "lookup"
    /\ \E answer \in {"returns", "raises"} :
          handler' =
             IF answer = "raises" THEN [handler EXCEPT !.pc = "raised"]
             ELSE IF handler.left > 1 THEN [handler EXCEPT !.left = @ - 1]
             ELSE quota_built([handler EXCEPT !.left = 0], "ok")
    /\ UNCHANGED handler_frame

\* response = await provider.text_chat(prompt=prompt) answered, with a text,
\* without one or with an exception that _generate_llm_analysis catches.
AwaitTextChat ==
    /\ handler.pc = "text_chat"
    /\ \E answer \in {"text", "none"} :
          handler' = dashboard_end([handler EXCEPT !.analysis = answer])
    /\ UNCHANGED handler_frame

NextHandler ==
    GetClient \/ AfterProgress \/ AwaitUsage \/ AwaitAuthFiles \/ AwaitLookup
        \/ AwaitTextChat

SpecHandler == InitHandler /\ [][NextHandler]_vars

HandlerDone == handler.pc = "done"
LastYield == handler.yields[Len(handler.yields)]

\* The run built its data, the render gave no image, and the data could still
\* be fetched when the fallback asked for it (cpa_dashboard asks for nothing).
NoImageWithData ==
    /\ HandlerDone /\ handler.data = "ok"
    /\ render_image(handler.render) = "None"
    /\ handler.refetch \in {"ok", "unset"}

\* C17: whenever the render gives no image (None, an exception, a failed
\* save) every image command ends with a plain-text summary of the data; a run
\* ends with exactly one final result, an image or a text, never both.
CE_C17_FallbackIsSummary ==
    /\ NoImageWithData => LastYield = plain_result("summary")
    /\ handler.pc # "raised"
    /\ HandlerDone =>
          /\ handler.yields # <<>>
          /\ \A i \in 1..(Len(handler.yields) - 1) :
                handler.yields[i] = plain_result("progress")

\* cpa总览 with its data built, the analysis awaited and a renderer that
\* returned None: the run ends with the fixed failure message, no summary.
Wit_C17_DashboardNoSummary ==
    /\ NoImageWithData /\ handler.command = "cpa_dashboard" /\ handler.render = "none"
    /\ handler.analysis = "text"
    /\ handler.yields = <<plain_result("progress"), plain_result("render failed")>>

\* C18 as stated: the today card draws one row for every auth_stats entry of
\* the payload (up to the caller's 10), in the given order.
CE_C18_EveryAuthEntryDrawn ==
    RenderedAs("today") =>
        canvas.auth_rows = [k \in 1..data.n_auth_stats |-> k]

\* C18 as amended: the today card draws one row for each of the first eight
\* auth_stats entries of the payload, in the given order, and none for the rest.
Thm_C18_FirstEightAuthEntries ==
    RenderedAs("today") =>
        /\ Len(canvas.auth_rows) = (IF data.n_auth_stats <= 8 THEN data.n_auth_stats ELSE 8)
        /\ \A k \in 1..Len(canvas.auth_rows) : canvas.auth_rows[k] = k

\* Ten entries in the payload, eight rows drawn.
Wit_C18_TenEntriesEightRows ==
    RenderedAs("today") /\ data.n_auth_stats = 10 /\ Len(canvas.auth_rows) = 8

(***************************************************************************)
(* The quota parsers of the plugin: remaining percent of one quota entry.  *)
(* A remaining fraction is given in sixteenths, which floating point holds *)
(* exactly; a used_percent is an integer.  The plugin takes both from the  *)
(* quota endpoint's answer as they come.                                   *)
(***************************************************************************)
FractionSlack == 2      \* a remaining fraction ranges over (-FractionSlack..16 + FractionSlack)/16

\* round(num / den), den > 0: to the nearest integer, a tie to the even one.
round_half_even(num, den) ==
    LET q == num \div den
        r == num % den
    IN  IF 2 * r < den THEN q
        ELSE IF 2 * r > den THEN q + 1
        ELSE IF q % 2 = 0 THEN q ELSE q + 1

\* _parse_quota_dynamic: "remaining_percent": round(remaining * 100)
parse_quota_dynamic(sixteenths) == round_half_even(sixteenths * 100, 16)

\* _parse_gemini_cli_quota_dynamic: "remaining_percent": round(remaining * 100)
parse_gemini_cli_quota_dynamic(sixteenths) == round_half_even(sixteenths * 100, 16)

\* _parse_codex_quota: remaining_percent = 100 - used_percent
parse_codex_quota(used_percent) == 100 - used_percent

\* The entry _build_quota_data appends for a parsed group, and the bar the
\* quota card draws for it.
quota_entry(provider, raw, remaining_percent, scale) ==
    [provider |-> provider, raw |-> raw, percent |-> remaining_percent,
     bar |-> draw_progress_bar(card_width(scale) - (14 * scale) * 2 - 100 * scale,
                               10 * scale, remaining_percent)]

Fractions == (0 - FractionSlack)..(16 + FractionSlack)

InitParse == CoreIdle /\ StepsIdle

parse_frame == <<core_vars, service_vars, tint, label, wrap, handler>>

ParseAntigravity ==
    /\ \E remaining \in Fractions :
          parsed' = quota_entry("antigravity", remaining,
                                parse_quota_dynamic(remaining), SCALE_FACTOR)
    /\ UNCHANGED parse_frame

ParseGeminiCli ==
    /\ \E remaining \in Fractions :
          parsed' = quota_entry("gemini-cli", remaining,
                                parse_gemini_cli_quota_dynamic(remaining), SCALE_FACTOR)
    /\ UNCHANGED parse_frame

ParseCodex ==
    /\ \E used_percent \in Percents :
          parsed' = quota_entry("codex", used_percent,
                                parse_codex_quota(used_percent), SCALE_FACTOR)
    /\ UNCHANGED parse_frame

NextParse == ParseAntigravity \/ ParseGeminiCli \/ ParseCodex

SpecParse == InitParse /\ [][NextParse]_vars

Parsed == parsed.provider # "none"

\* C19: every quota percent the plugin puts into a payload lies in 0..100,
\* whatever the quota endpoint answered, and the filled portion of the bar
\* drawn for it never extends past the track.
CE_C19_PercentWithinRange ==
    Parsed =>
        /\ parsed.percent >= 0 /\ parsed.percent <= 100
        /\ parsed.bar.filled <= parsed.bar.track

\* A remaining fraction of 17/16 from the endpoint: percent 106 in the payload
\* and a filled portion wider than the track.
Wit_C19_BarPastTrack ==
    /\ Parsed /\ parsed.provider = "antigravity" /\ parsed.raw = 17
    /\ parsed.percent = 106
    /\ parsed.bar.filled > parsed.bar.track

\* C20: the height left by the crop is cursor + padding clamped to
\* [100 * scale, allocated height]; the crop never enlarges the canvas, and the
\* returned image is between 100 and the allocated logical height tall.
Thm_C20_CropClamp ==
    (Rendered /\ canvas.planner \in Planners) =>
        LET wanted == canvas.y + canvas.padding
            low    == 100 * SCALE_FACTOR
        IN  /\ canvas.crop_height =
                   (IF wanted < low THEN low
                    ELSE IF wanted > canvas.height THEN canvas.height ELSE wanted)
            /\ canvas.crop_height <= canvas.height
            /\ ~img.is_none
            /\ img.height >= 100
            /\ img.height <= canvas.height \div SCALE_FACTOR

\* A dashboard whose cursor ran past the allocated canvas: the crop keeps the
\* allocated height.
Wit_C20_ClampedAtAllocated ==
    /\ RenderedAs("dashboard") /\ ~img.is_none
    /\ canvas.y + canvas.padding > canvas.height
    /\ canvas.crop_height = canvas.height
    /\ img.height = MAX_HEIGHT

(***************************************************************************)
(* The analysis block of render_dashboard: the wrapped lines, each drawn   *)
(* by the first branch whose test it passes.                               *)
(***************************************************************************)
MaxBodyLen == 16        \* longest run of letters in an analysis paragraph
MaxPadLen == 5          \* longest run of narrow letters after them
MaxMidLen == 3          \* longest free string of an analysis paragraph

\* s.strip(), whitespace being the space.
RECURSIVE lstrip(_)
lstrip(s) == IF s # <<>> /\ Head(s) = " " THEN lstrip(Tail(s)) ELSE s

RECURSIVE rstrip(_)
rstrip(s) ==
    IF s # <<>> /\ s[Len(s)] = " " THEN rstrip(SubSeq(s, 1, Len(s) - 1)) ELSE s

strip(s) == rstrip(lstrip(s))

\* s.strip("*")
RECURSIVE lstrip_stars(_)
lstrip_stars(s) == IF s # <<>> /\ Head(s) = "*" THEN lstrip_stars(Tail(s)) ELSE s

RECURSIVE rstrip_stars(_)
rstrip_stars(s) ==
    IF s # <<>> /\ s[Len(s)] = "*" THEN rstrip_stars(SubSeq(s, 1, Len(s) - 1)) ELSE s

strip_stars(s) == rstrip_stars(lstrip_stars(s))

startswith(s, prefix) ==
    Len(s) >= Len(prefix) /\ SubSeq(s, 1, Len(prefix)) = prefix

endswith(s, suffix) ==
    Len(s) >= Len(suffix) /\ SubSeq(s, Len(s) - Len(suffix) + 1, Len(s)) = suffix

HeadingMarker == <<"#", "#", "#">>
BoldMarker == <<"*", "*">>

\* s.replace("###", "")
RECURSIVE remove_heading_markers(_)
remove_heading_markers(s) ==
    IF s = <<>> THEN <<>>
    ELSE IF startswith(s, HeadingMarker)
    THEN remove_heading_markers(SubSeq(s, 4, Len(s)))
    ELSE <<Head(s)>> \o remove_heading_markers(Tail(s))

\* Branch tests that take the opening bold marker alone for a bold line.
line_class_opening_marker(line) ==
    IF startswith(strip(line), HeadingMarker) THEN "heading"
    ELSE IF startswith(strip(line), BoldMarker) THEN "bold"
    ELSE IF strip(line) # <<>> THEN "body"
    ELSE "empty"

\* The branch of the "for line in lines" loop that takes a line.
line_class(line) ==
    IF startswith(strip(line), HeadingMarker) THEN "heading"
    ELSE IF startswith(strip(line), BoldMarker) /\ endswith(strip(line), BoldMarker)
    THEN "bold"
    ELSE IF strip(line) # <<>> THEN "body"
    ELSE "empty"

\* What the loop does with one line: the text and fill of its draw.text call
\* (none for an empty line), the font, the space added before, the advance.
draw_line(line, scale) ==
    LET class == line_class(line)
    IN  [class     |-> class,
         glyphs    |-> class # "empty",
         text      |-> CASE class = "heading" -> strip(remove_heading_markers(line))
                         [] class = "bold"    -> strip_stars(strip(line))
                         [] class = "body"    -> line
                         [] OTHER             -> <<>>,
         fill      |-> CASE class = "heading" -> "accent_cyan"
                         [] class = "bold"    -> "text_primary"
                         [] class = "body"    -> "text_secondary"
                         [] OTHER             -> "none",
         font_size |-> CASE class = "heading" -> 12 * scale
                         [] class = "bold"    -> 12 * scale
                         [] class = "body"    -> 10 * scale
                         [] OTHER             -> 0,
         lead      |-> IF class = "heading" THEN 6 * scale ELSE 0,
         advance   |-> analysis_line_advance(class, scale)]

\* The block: nothing for an empty analysis text, else the wrapped lines drawn.
draw_analysis(text, scale) ==
    LET w == wrap_text(text, 10 * scale, dashboard_text_width(scale))
        lines == IF text = <<>> THEN <<>> ELSE w.lines
    IN  [done |-> TRUE, text |-> text, font_size |-> w.font_size,
         max_width |-> w.max_width, paragraphs |-> w.paragraphs,
         lines_of |-> w.lines_of, lines |-> lines,
         drawn |-> [k \in 1..Len(lines) |-> draw_line(lines[k], scale)]]

\* The characters of an analysis text: the reply of the LLM is any string, so
\* markers and spaces stand anywhere in a paragraph.
AnalysisChars == {"wide", " ", "*", "#"}

Run(glyph, n) == [k \in 1..n |-> glyph]

\* Paragraphs of letters: an optional leading space, an optional opening
\* marker, up to n letters of one kind, an optional closing bold marker.
LetterParagraphs(n) ==
    {lead \o open \o Run(g, k) \o close :
        lead \in {<<>>, <<" ">>}, open \in {<<>>, HeadingMarker, BoldMarker},
        g \in Glyphs, k \in 0..n, close \in {<<>>, BoldMarker}}

\* Paragraphs of any characters: any string of up to m characters, with an
\* optional leading space, opening marker, closing bold marker, trailing space.
FreeParagraphs(m) ==
    {lead \o open \o mid \o close \o trail :
        lead \in {<<>>, <<" ">>}, open \in {<<>>, HeadingMarker, BoldMarker},
        mid \in SeqsUpTo(AnalysisChars, m),
        close \in {<<>>, BoldMarker}, trail \in {<<>>, <<" ">>}}

\* Paragraphs that wrap at any character: an optional opening marker, wide
\* letters that fill most of a line and up to pad narrow letters that fill the
\* rest to any width, then any string of up to m characters and an optional
\* closing bold marker.  The break falls inside the letters, before a marker,
\* between two markers or before a space.
WrappingParagraphs(n, pad, m) ==
    {open \o Run("wide", k) \o Run("narrow", j) \o mid \o close :
        open \in {<<>>, HeadingMarker, BoldMarker},
        k \in {i \in 0..n : i + 2 >= n}, j \in 0..pad,
        mid \in SeqsUpTo(AnalysisChars, m), close \in {<<>>, BoldMarker}}

AnalysisParagraphs(n, pad, m) ==
    LetterParagraphs(n) \cup FreeParagraphs(m) \cup WrappingParagraphs(n, pad, m)

\* data.get("analysis", ""): one paragraph, or two with a line feed between.
AnalysisTexts ==
    AnalysisParagraphs(MaxBodyLen, MaxPadLen, MaxMidLen)
    \cup {p \o <<"\\n">> \o q : p \in LetterParagraphs(MaxBodyLen),
                                 q \in LetterParagraphs(1)}

InitAnalysis ==
    /\ CoreIdle
    /\ wrap \in [done : {FALSE}, text : AnalysisTexts]
    /\ tint = NoTint /\ label = NoLabel /\ handler = NoHandler /\ parsed = NoParsed
    /\ ServicesIdle

DrawAnalysis ==
    /\ ~wrap.done
    /\ wrap' = draw_analysis(wrap.text, SCALE_FACTOR)
    /\ UNCHANGED <<core_vars, service_vars, tint, label, handler, parsed>>

NextAnalysis == DrawAnalysis

SpecAnalysis == InitAnalysis /\ [][NextAnalysis]_vars

AnalysisDrawn == wrap.done /\ "drawn" \in DOMAIN wrap

\* Index in wrap.lines of the line before the first line of paragraph k.
LineOffset(k) == SumSeq([j \in 1..(k - 1) |-> Len(wrap.lines_of[j])])

\* C22: every wrapped line is drawn by exactly one of the four branches
\* (heading in the accent colour with leading space, bold in the primary
\* colour, body in the body colour, empty without glyph), and every paragraph
\* of the analysis that is bold-wrapped is drawn entirely in the primary colour.
CE_C22_BoldParagraphPrimary ==
    (AnalysisDrawn /\ wrap.text # <<>>) =>
        /\ \A i \in 1..Len(wrap.drawn) :
              LET d == wrap.drawn[i]
              IN  /\ d.class \in {"heading", "bold", "body", "empty"}
                  /\ d.class = "heading" => (d.fill = "accent_cyan" /\ d.lead > 0)
                  /\ d.class = "bold" => d.fill = "text_primary"
                  /\ d.class = "body" => d.fill = "text_secondary"
                  /\ d.class = "empty" <=> ~d.glyphs
        /\ \A k \in 1..Len(wrap.paragraphs) :
              line_class(wrap.paragraphs[k]) = "bold" =>
                  \A i \in 1..Len(wrap.lines_of[k]) :
                      wrap.drawn[LineOffset(k) + i].fill = "text_primary"

\* A bold-wrapped paragraph of fifteen wide glyphs: it wraps into two lines,
\* neither of which both starts and ends with the bold marker, so both are
\* drawn as body text with their asterisks.
Wit_C22_BoldParagraphAsBody ==
    /\ AnalysisDrawn /\ Len(wrap.paragraphs) = 1
    /\ wrap.text = BoldMarker \o [k \in 1..15 |-> "wide"] \o BoldMarker
    /\ Len(wrap.drawn) = 2
    /\ \A i \in 1..2 : /\ wrap.drawn[i].class = "body"
                        /\ wrap.drawn[i].fill = "text_secondary"
                        /\ wrap.drawn[i].text = wrap.lines[i]

\* C22 as amended: every wrapped line is drawn by exactly one branch, chosen
\* by the line's own text and tested in order: a line that starts with the
\* heading marker (accent colour, leading space, markers removed), else a line
\* that both starts and ends with the bold marker (primary colour, asterisks
\* at its ends removed), else any other non-blank line (body colour, drawn as
\* it is), else a blank line (no glyph, the cursor advances).  The tests see
\* the lines after wrapping, never the paragraph: a paragraph that fits on one
\* line is drawn as that line, and a bold-wrapped paragraph is drawn entirely
\* in the primary colour exactly when each of its lines is itself a bold line.
Thm_C22_LinesClassifiedAlone ==
    (AnalysisDrawn /\ wrap.text # <<>>) =>
        /\ Len(wrap.drawn) = Len(wrap.lines)
        /\ \A i \in 1..Len(wrap.drawn) :
              LET d == wrap.drawn[i]
                  s == strip(wrap.lines[i])
                  heading == startswith(s, HeadingMarker)
                  bold == ~heading /\ startswith(s, BoldMarker) /\ endswith(s, BoldMarker)
                  body == ~heading /\ ~bold /\ s # <<>>
                  empty == s = <<>>
              IN  /\ d.class \in {"heading", "bold", "body", "empty"}
                  /\ d.class = "heading" <=> heading
                  /\ d.class = "bold" <=> bold
                  /\ d.class = "body" <=> body
                  /\ d.class = "empty" <=> empty
                  /\ heading => /\ d.glyphs /\ d.fill = "accent_cyan"
                                /\ d.lead = 6 * SCALE_FACTOR
                                /\ d.advance = 24 * SCALE_FACTOR
                                /\ d.text = strip(remove_heading_markers(wrap.lines[i]))
                  /\ bold => /\ d.glyphs /\ d.fill = "text_primary" /\ d.lead = 0
                             /\ d.advance = 16 * SCALE_FACTOR
                             /\ d.text = strip_stars(s)
                  /\ body => /\ d.glyphs /\ d.fill = "text_secondary" /\ d.lead = 0
                             /\ d.advance = 14 * SCALE_FACTOR
                             /\ d.text = wrap.lines[i]
                  /\ empty => /\ ~d.glyphs /\ d.fill = "none" /\ d.lead = 0
                              /\ d.advance = 8 * SCALE_FACTOR
        /\ \A k \in 1..Len(wrap.paragraphs) :
              LET own == wrap.lines_of[k]
                  bold_line(l) ==
                      /\ ~startswith(strip(l), HeadingMarker)
                      /\ startswith(strip(l), BoldMarker)
                      /\ endswith(strip(l), BoldMarker)
              IN  /\ Len(own) = 1 =>
                        wrap.drawn[LineOffset(k) + 1].class = line_class(wrap.paragraphs[k])
                  /\ line_class(wrap.paragraphs[k]) = "bold" =>
                        ((\A i \in 1..Len(own) :
                             wrap.drawn[LineOffset(k) + i].fill = "text_primary")
                         <=> \A i \in 1..Len(own) : bold_line(own[i]))

(***************************************************************************)
(* The font resolver: _find_font_path and get_font.  The candidate paths   *)
(* are numbered in the order of font_paths; path 0 stands for "" (nothing  *)
(* found, returned as None).  A file is present or not, and a present file *)
(* is sound (ImageFont.truetype loads it) or not; files come and go.       *)
(***************************************************************************)
NumFontPaths == 3       \* candidate paths in font_paths
NumCallers == 2         \* callers of the resolver
MaxCalls == 3           \* calls of the resolver in one run

FontPaths == 1..NumFontPaths
Callers == 1..NumCallers
FontSizes == {20, 36}

NoHandle == [is_none |-> TRUE, raised |-> FALSE, kind |-> "none", path |-> 0, size |-> 0]
FontHandle(kind, path, size) ==
    [is_none |-> FALSE, raised |-> FALSE, kind |-> kind, path |-> path, size |-> size]
Raised == [is_none |-> TRUE, raised |-> TRUE, kind |-> "none", path |-> 0, size |-> 0]

CacheUnset == [is_none |-> TRUE, path |-> 0]
CacheSet(path) == [is_none |-> FALSE, path |-> path]

IdleCaller ==
    [pc |-> "idle", op |-> "none", size |-> 0, k |-> 0, probed |-> <<>>,
     result |-> 0, handle |-> NoHandle]

\* get_font after _find_font_path, with no built-in face behind "arial.ttf".
load_font_no_default(font_path, size, exists, sound, arial_ok) ==
    IF font_path # 0 /\ font_path \in exists /\ font_path \in sound
    THEN FontHandle("truetype", font_path, size)
    ELSE IF arial_ok THEN FontHandle("arial", 0, size)
    ELSE Raised

\* get_font after _find_font_path: truetype(font_path), else truetype("arial.ttf"),
\* else load_default().
load_font(font_path, size, exists, sound, arial_ok) ==
    IF font_path # 0 /\ font_path \in exists /\ font_path \in sound
    THEN FontHandle("truetype", font_path, size)
    ELSE IF arial_ok THEN FontHandle("arial", 0, size)
    ELSE FontHandle("default", 0, 0)

\* The step after the cache test that always probes.
after_check_uncached(cache, op) == "probe"

\* "if _font_path_cache is not None: return ...": where the caller goes next.
after_check(cache, op) ==
    IF cache.is_none THEN "probe"
    ELSE IF op = "get_font" THEN "load" ELSE "done"

\* A search that goes on to the end of the list and keeps the last file present.
probe_step_keep_last(k, present, result) ==
    [pc |-> IF k = NumFontPaths THEN "store" ELSE "probe",
     k |-> IF k = NumFontPaths THEN k ELSE k + 1,
     result |-> IF present THEN k ELSE result]

\* One turn of the search loop at path k: leave with k when the file is
\* present, leave with "" after the last path, else go on.
probe_step(k, present, result) ==
    [pc |-> IF present \/ k = NumFontPaths THEN "store" ELSE "probe",
     k |-> IF present \/ k = NumFontPaths THEN k ELSE k + 1,
     result |-> IF present THEN k ELSE 0]

\* The module once imported: nothing cached, some files present, some sound.
FontStates ==
    [phase : {"ready"}, cache : {CacheUnset}, exists : SUBSET FontPaths,
     sound : SUBSET FontPaths, arial_ok : BOOLEAN, lru : {<<>>},
     callers : {[c \in Callers |-> IdleCaller]}, calls : {0}, returned : {<<>>},
     touched : {FALSE}]

InitFont ==
    /\ CoreIdle
    /\ tint = NoTint /\ label = NoLabel /\ wrap = NoWrap
    /\ handler = NoHandler /\ parsed = NoParsed
    /\ session = NoSession /\ quota_call = NoQuotaCall /\ build = NoBuild
    /\ font \in FontStates

font_frame == <<core_vars, tint, label, wrap, handler, parsed, session, quota_call, build>>

NoCallRunning == \A c \in Callers : font.callers[c].pc \in {"idle", "done"}

\* A call of _find_font_path begins.
StartFind(c) ==
    /\ font.phase = "ready" /\ NoCallRunning /\ font.calls < MaxCalls
    /\ font' = [font EXCEPT !.callers[c] = [IdleCaller EXCEPT !.pc = "check", !.op = "find"],
                            !.calls = @ + 1]
    /\ UNCHANGED font_frame

\* A call of get_font(size) begins: lru_cache answers when it holds the size.
StartGetFont(c, size) ==
    /\ font.phase = "ready" /\ NoCallRunning /\ font.calls < MaxCalls
    /\ font' = [font EXCEPT
                   !.callers[c] =
                       IF size \in DOMAIN font.lru
                       THEN [IdleCaller EXCEPT !.pc = "done", !.op = "get_font",
                                               !.size = size, !.handle = font.lru[size]]
                       ELSE [IdleCaller EXCEPT !.pc = "check", !.op = "get_font",
                                               !.size = size],
                   !.calls = @ + 1]
    /\ UNCHANGED font_frame

\* if _font_path_cache is not None: return _font_path_cache if _font_path_cache else None
Check(c) ==
    /\ font.phase = "ready" /\ font.callers[c].pc = "check"
    /\ LET next == after_check(font.cache, font.callers[c].op)
       IN  font' = [font EXCEPT
                      !.callers[c].pc = next,
                      !.callers[c].k = IF next = "probe" THEN 1 ELSE 0,
                      !.callers[c].result = IF next = "probe" THEN 0 ELSE font.cache.path,
                      !.returned = IF next = "probe" THEN @
                                   ELSE Append(@, font.cache.path)]
    /\ UNCHANGED font_frame

\* One turn of "for path in font_paths: if os.path.exists(path)".
Probe(c) ==
    /\ font.phase = "ready" /\ font.callers[c].pc = "probe"
    /\ LET k == font.callers[c].k
           present == k \in font.exists
           next == probe_step(k, present, font.callers[c].result)
       IN  font' = [font EXCEPT
                      !.callers[c].probed = Append(@, [path |-> k, present |-> present]),
                      !.callers[c].result = next.result,
                      !.callers[c].pc = next.pc,
                      !.callers[c].k = next.k]
    /\ UNCHANGED font_frame

\* _font_path_cache = path; return path   (or = ""; return None)
Store(c) ==
    /\ font.phase = "ready" /\ font.callers[c].pc = "store"
    /\ font' = [font EXCEPT
                   !.cache = CacheSet(font.callers[c].result),
                   !.returned = Append(@, font.callers[c].result),
                   !.callers[c].pc = IF font.callers[c].op = "get_font" THEN "load" ELSE "done"]
    /\ UNCHANGED font_frame

\* The rest of get_font; lru_cache keeps what it returns.
Load(c) ==
    /\ font.phase = "ready" /\ font.callers[c].pc = "load"
    /\ LET me == font.callers[c]
           h == load_font(me.result, me.size, font.exists, font.sound, font.arial_ok)
       IN  font' = [font EXCEPT
                      !.callers[c].handle = h,
                      !.callers[c].pc = "done",
                      !.lru = IF h.raised THEN @
                              ELSE [s \in DOMAIN @ \cup {me.size} |->
                                       IF s = me.size THEN h ELSE @[s]]]
    /\ UNCHANGED font_frame

\* A font file appears or disappears.
FsChange ==
    /\ font.phase = "ready"
    /\ \E p \in FontPaths :
          font' = [font EXCEPT !.exists = IF p \in @ THEN @ \ {p} ELSE @ \cup {p},
                               !.touched = TRUE]
    /\ UNCHANGED font_frame

\* Calls one after the other, as the render calls of the event loop make them.
NextFont ==
    \/ StartFind(1)
    \/ \E size \in FontSizes : StartGetFont(1, size)
    \/ \E c \in Callers : Check(c)
    \/ \E c \in Callers : Probe(c)
    \/ \E c \in Callers : Store(c)
    \/ \E c \in Callers : Load(c)
    \/ FsChange

SpecFont == InitFont /\ [][NextFont]_vars

FontReady == font.phase = "ready"

\* The probes of a finished search: the paths in list order, none present but
\* possibly the last, and the result they give.
ProbedInOrder(me) ==
    LET n == Len(me.probed)
    IN  /\ n >= 1 /\ n <= NumFontPaths
        /\ \A i \in 1..n : me.probed[i].path = i
        /\ \A i \in 1..(n - 1) : ~me.probed[i].present
        /\ IF me.probed[n].present THEN me.result = n
           ELSE n = NumFontPaths /\ me.result = 0

\* C23: the font path is resolved once.  The call that finds the cache unset
\* probes the candidates in list order and caches the first one present (or
\* "nothing found"); from then on the cache never changes, no call probes a
\* file, and every call returns the cached outcome, whatever files appear or
\* disappear.
Thm_C23_ResolvedOnce ==
    /\ [](FontReady =>
            /\ \A i \in 1..Len(font.returned) :
                  ~font.cache.is_none /\ font.returned[i] = font.cache.path
            /\ \A c \in Callers :
                  (font.callers[c].pc \in {"store", "load", "done"}
                   /\ font.callers[c].probed # <<>>) => ProbedInOrder(font.callers[c]))
    /\ [][(FontReady /\ ~font.cache.is_none) =>
             /\ font'.cache = font.cache
             /\ \A c \in Callers :
                   Len(font'.callers[c].probed) <= Len(font.callers[c].probed)]_vars

\* Path 2 was cached while path 1 was absent; path 1 has appeared since, and a
\* later call returned path 2 again without probing.
Wit_C23_LaterFileIgnored ==
    /\ FontReady /\ font.cache = CacheSet(2)
    /\ 1 \in font.exists /\ 2 \notin font.exists
    /\ Len(font.returned) = 3
    /\ font.callers[1].pc = "done" /\ font.callers[1].probed = <<>>
    /\ font.callers[1].result = 2

GotFont(c) == FontReady /\ font.callers[c].op = "get_font" /\ font.callers[c].pc = "done"

\* C24: get_font never fails hard: whatever files are present or sound, it
\* returns a font handle and raises nothing; when no candidate was found and
\* "arial.ttf" does not load, the handle is the built-in face.
Thm_C24_AlwaysAFont ==
    \A c \in Callers :
        GotFont(c) =>
            /\ ~font.callers[c].handle.is_none
            /\ ~font.callers[c].handle.raised
            /\ font.callers[c].handle.kind \in {"truetype", "arial", "default"}
            /\ (font.cache.path = 0 /\ ~font.arial_ok)
                  => font.callers[c].handle.kind = "default"

\* No candidate present, "arial.ttf" missing: the built-in face.
Wit_C24_BuiltInFace ==
    /\ GotFont(1) /\ font.exists = {} /\ ~font.arial_ok
    /\ font.cache = CacheSet(0)
    /\ Len(font.callers[1].probed) = NumFontPaths
    /\ font.callers[1].handle.kind = "default"

\* C25: when the cached candidate fails to load, get_font goes on to the next
\* candidates of font_paths: it returns the first later candidate that is
\* present and sound, before "arial.ttf" or the built-in face.
CE_C25_NextCandidateTried ==
    [][\A c \in Callers :
          LET me == font.callers[c]
              later == {q \in FontPaths : q > me.result /\ q \in font.exists
                                          /\ q \in font.sound}
          IN  (FontReady /\ me.pc = "load" /\ font'.callers[c].pc = "done"
               /\ me.result # 0 /\ me.result \notin font.sound /\ later # {})
                 => /\ font'.callers[c].handle.kind = "truetype"
                    /\ font'.callers[c].handle.path \in later
                    /\ \A q \in later : font'.callers[c].handle.path <= q]_vars

\* Candidate 1 is present but does not load, candidate 2 is present and sound,
\* "arial.ttf" is missing: get_font returns the built-in face.
Wit_C25_SoundCandidateSkipped ==
    /\ GotFont(1) /\ font.cache = CacheSet(1)
    /\ 1 \in font.exists /\ 1 \notin font.sound
    /\ 2 \in font.exists /\ 2 \in font.sound /\ ~font.arial_ok
    /\ font.callers[1].probed # <<>>
    /\ font.callers[1].handle.kind = "default"

(***************************************************************************)
(* Several callers of _find_font_path.  The function has no await, so the  *)
(* event loop runs each call from its cache test to its return before the  *)
(* next one starts; callers on several threads overlap, and a caller may   *)
(* then enter while another is between its cache test and its store.  Both *)
(* kinds of run are runs of this specification: a caller enters at any     *)
(* moment, and the callers' check, probe and store steps interleave        *)
(* freely.  The candidate files stay as they are while the callers run.    *)
(***************************************************************************)
InitFontRace ==
    /\ CoreIdle
    /\ tint = NoTint /\ label = NoLabel /\ wrap = NoWrap
    /\ handler = NoHandler /\ parsed = NoParsed
    /\ session = NoSession /\ quota_call = NoQuotaCall /\ build = NoBuild
    /\ font \in {f \in FontStates : f.sound = FontPaths /\ f.arial_ok}

\* A caller enters _find_font_path, whatever the other callers are doing.
CallFind(c) ==
    /\ font.phase = "ready" /\ font.callers[c].pc \in {"idle", "done"}
    /\ font.calls < MaxCalls
    /\ font' = [font EXCEPT !.callers[c] = [IdleCaller EXCEPT !.pc = "check", !.op = "find"],
                            !.calls = @ + 1]
    /\ UNCHANGED font_frame

NextFontRace ==
    \/ \E c \in Callers : CallFind(c)
    \/ \E c \in Callers : Check(c)
    \/ \E c \in Callers : Probe(c)
    \/ \E c \in Callers : Store(c)

SpecFontRace == InitFontRace /\ [][NextFontRace]_vars

RaceOver ==
    /\ FontReady /\ font.returned # <<>>
    /\ \A c \in Callers : font.callers[c].pc \in {"idle", "done"}

\* The first candidate present, 0 when there is none.
first_present(exists) ==
    IF exists = {} THEN 0 ELSE CHOOSE p \in exists : \A q \in exists : p <= q

\* C26: callers racing through _find_font_path while the cache is unset all
\* return the same path, and the cache ends holding that path, under every
\* interleaving of their check, probe and store steps.  The path is the first
\* candidate present (nothing when there is none): every caller about to store
\* holds it, every value returned so far is it, and the cache holds it from
\* the first store on, however many callers store after that.
Thm_C26_RacersAgree ==
    FontReady =>
        /\ \A c \in Callers :
              font.callers[c].pc \in {"store", "done"}
                 => font.callers[c].result = first_present(font.exists)
        /\ \A i, j \in 1..Len(font.returned) : font.returned[i] = font.returned[j]
        /\ \A i \in 1..Len(font.returned) :
              font.returned[i] = first_present(font.exists)
        /\ ~font.cache.is_none => font.cache = CacheSet(first_present(font.exists))
        /\ RaceOver => \A i \in 1..Len(font.returned) :
                          font.cache = CacheSet(font.returned[i])

\* Two callers both found the cache unset and both probed paths 1 and 2; both
\* stored and returned path 2, and the cache holds path 2.
Wit_C26_BothProbedSamePath ==
    /\ RaceOver /\ font.exists = {2, 3}
    /\ \A c \in {1, 2} : /\ font.callers[c].pc = "done"
                          /\ Len(font.callers[c].probed) = 2
                          /\ font.callers[c].result = 2
    /\ font.returned = <<2, 2>>
    /\ font.cache = CacheSet(2)

(***************************************************************************)
(* CPAClient: the session it holds, request coroutines calling             *)
(* _get_session, and close() called from Main.terminate.  close() gives up *)
(* control at its two awaits.  A session reports closed from the start of  *)
(* its close() or only from its end, depending on the aiohttp build.       *)
(***************************************************************************)
MaxSessions == 3        \* sessions one client creates in a run
NumRequests == 2        \* request coroutines

Requests == 1..NumRequests

\* self._session is None or self._session.closed
needs_session(s) == s.ref = 0 \/ s.sessions[s.ref].closed

\* _get_session: create a session when there is none or it is closed.
get_session(s, when) ==
    IF needs_session(s)
    THEN [s EXCEPT !.sessions = Append(@, [closed |-> FALSE, finished |-> FALSE,
                                           born |-> when]),
                   !.ref = Len(s.sessions) + 1]
    ELSE s

SessionStates ==
    [phase : {"ready"}, ref : {0}, sessions : {<<>>}, closer : {"idle"},
     closing : {0}, early : BOOLEAN, requests : {[r \in Requests |-> [pc |-> "idle", s |-> 0]]}]

InitSession ==
    /\ CoreIdle
    /\ tint = NoTint /\ label = NoLabel /\ wrap = NoWrap
    /\ handler = NoHandler /\ parsed = NoParsed
    /\ font = NoFont /\ quota_call = NoQuotaCall /\ build = NoBuild
    /\ session \in SessionStates

session_frame == <<core_vars, tint, label, wrap, handler, parsed, font, quota_call, build>>

\* session = await self._get_session(): a request takes the client's session.
GetSession(r) ==
    /\ session.phase = "ready" /\ session.requests[r].pc = "idle"
    /\ needs_session(session) => Len(session.sessions) < MaxSessions
    /\ LET s == get_session(session, session.closer)
       IN  session' = [s EXCEPT !.requests[r] = [pc |-> "using", s |-> s.ref]]
    /\ UNCHANGED session_frame

\* The request's "async with session.get(...)" ends.
RequestDone(r) ==
    /\ session.phase = "ready" /\ session.requests[r].pc = "using"
    /\ session' = [session EXCEPT !.requests[r].pc = "idle"]
    /\ UNCHANGED session_frame

\* close() up to its first await: nothing to close, or session.close() begins.
CloseStart ==
    /\ session.phase = "ready" /\ session.closer = "idle"
    /\ session' =
          IF session.ref # 0 /\ ~session.sessions[session.ref].closed
          THEN [session EXCEPT !.closer = "closing", !.closing = session.ref,
                               !.sessions[session.ref].closed = session.early]
          ELSE [session EXCEPT !.closer = "returned", !.ref = 0]
    /\ UNCHANGED session_frame

\* await self._session.close() completes; close() goes on to asyncio.sleep(0.25).
SessionClosed ==
    /\ session.phase = "ready" /\ session.closer = "closing"
    /\ session' = [session EXCEPT !.closer = "sleeping",
                                  !.sessions[session.closing].closed = TRUE,
                                  !.sessions[session.closing].finished = TRUE]
    /\ UNCHANGED session_frame

\* The sleep ends: self._session = None, close() returns.
CloseReturn ==
    /\ session.phase = "ready" /\ session.closer = "sleeping"
    /\ session' = [session EXCEPT !.closer = "returned", !.ref = 0]
    /\ UNCHANGED session_frame

NextSession ==
    \/ \E r \in Requests : GetSession(r)
    \/ \E r \in Requests : RequestDone(r)
    \/ CloseStart
    \/ SessionClosed
    \/ CloseReturn

SpecSession == InitSession /\ [][NextSession]_vars

SessionReady == session.phase = "ready"
OpenSessions == {i \in 1..Len(session.sessions) : ~session.sessions[i].finished}

\* C27: the client references at most one session at a time, and once close()
\* has returned no session the client created before that is still open, also
\* when a request called _get_session while close() was suspended at an await.
CE_C27_NoOpenSessionAfterClose ==
    (SessionReady /\ session.closer = "returned") =>
        /\ session.ref \in 0..Len(session.sessions)
        /\ \A i \in 1..Len(session.sessions) :
              session.sessions[i].born \in {"idle", "closing", "sleeping"}
                 => session.sessions[i].finished

\* close() has returned and dropped the reference to a session that a request
\* created while close() slept; that session is open, and nothing refers to it
\* but the request.
Wit_C27_SessionLeftOpen ==
    /\ SessionReady /\ session.closer = "returned" /\ session.ref = 0
    /\ Len(session.sessions) = 2
    /\ session.sessions[1].finished
    /\ session.sessions[2].born = "sleeping" /\ ~session.sessions[2].closed
    /\ OpenSessions = {2}

(***************************************************************************)
(* CPAClient.get_google_quota for an antigravity credential: one api_call  *)
(* per endpoint of ANTIGRAVITY_QUOTA_URLS.  An answer is what api_call     *)
(* returned: nothing, or a status code with a body.  The body of an answer *)
(* with another status is no object ("body_not_dict"), an object without   *)
(* an error ("absent"), with an error object whose message is given or     *)
(* empty, or with an error that is no object, a text or null               *)
(* ("error_not_dict").  api_call hands on whatever JSON the management API *)
(* sent, so the result can also be no object at all, a list or a text      *)
(* ("result_not_dict").                                                    *)
(***************************************************************************)
NumEndpoints == 3

Endpoints == 1..NumEndpoints
OtherStatuses == {0, 429, 500}

NoAnswer == [answered |-> FALSE, status |-> 0, models |-> FALSE, message |-> "absent"]
Answers ==
    {NoAnswer}
    \cup [answered : {TRUE}, status : {200}, models : BOOLEAN, message : {"absent"}]
    \cup [answered : {TRUE}, status : {403}, models : {FALSE}, message : {"absent"}]
    \cup [answered : {TRUE}, status : OtherStatuses, models : {FALSE},
          message : {"given", "empty", "absent", "body_not_dict", "error_not_dict"}]
    \cup [answered : {TRUE}, status : {0}, models : {FALSE}, message : {"result_not_dict"}]

NoError == [kind |-> "none", endpoint |-> 0]
NoResult == [returned |-> FALSE, success |-> FALSE, error |-> NoError, error_code |-> 0]

\* last_error after an answer with another status: the body's error message,
\* "HTTP <status>" when there is none or the body is no object.
error_of(answer, k) ==
    IF answer.message \in {"given", "empty"}
    THEN [kind |-> answer.message, endpoint |-> k]
    ELSE [kind |-> "http", endpoint |-> k]

\* One turn of "for quota_url in ANTIGRAVITY_QUOTA_URLS".  On a result that is
\* no object result.get("status_code", 0) raises AttributeError, and on an
\* error that is no object body.get("error", {}).get("message", ...) does,
\* after last_status_code is set; nothing in get_google_quota catches it: the
\* lookup ends without a result.
try_endpoint(q) ==
    LET a == q.answers[q.i]
        called == [q EXCEPT !.calls = Append(@, q.i), !.i = @ + 1]
    IN  IF ~a.answered THEN called
        ELSE IF a.message = "result_not_dict" THEN [called EXCEPT !.pc = "raised"]
        ELSE IF a.status = 200
        THEN IF a.models
             THEN [called EXCEPT !.pc = "returned",
                                 !.result = [returned |-> TRUE, success |-> TRUE,
                                             error |-> NoError, error_code |-> 0]]
             ELSE called
        ELSE IF a.status = 403
        THEN [called EXCEPT !.pc = "returned",
                            !.result = [returned |-> TRUE, success |-> FALSE,
                                        error |-> [kind |-> "permission", endpoint |-> q.i],
                                        error_code |-> 403]]
        ELSE IF a.message = "error_not_dict"
        THEN [called EXCEPT !.pc = "raised",
                            !.last_status_code = [is_none |-> FALSE, value |-> a.status]]
        ELSE [called EXCEPT !.last_status_code = [is_none |-> FALSE, value |-> a.status],
                            !.last_error = error_of(a, q.i)]

\* The return after the loop: last_error or the generic error, last_status_code or 0.
give_up(q) ==
    [q EXCEPT !.pc = "returned",
              !.result = [returned |-> TRUE, success |-> FALSE,
                          error |-> IF q.last_error.kind \in {"none", "empty"}
                                    THEN [kind |-> "generic", endpoint |-> 0]
                                    ELSE q.last_error,
                          error_code |-> IF q.last_status_code.is_none THEN 0
                                         ELSE q.last_status_code.value]]

InitQuotaCall ==
    /\ CoreIdle
    /\ tint = NoTint /\ label = NoLabel /\ wrap = NoWrap
    /\ handler = NoHandler /\ parsed = NoParsed
    /\ font = NoFont /\ session = NoSession /\ build = NoBuild
    /\ quota_call \in [pc : {"loop"}, answers : [Endpoints -> Answers], i : {1},
                        calls : {<<>>}, last_error : {NoError},
                        last_status_code : {[is_none |-> TRUE, value |-> 0]},
                        result : {NoResult}]

quota_call_frame == <<core_vars, tint, label, wrap, handler, parsed, font, session, build>>

\* result = await self.api_call(...) and the rest of the turn
TryEndpoint ==
    /\ quota_call.pc = "loop" /\ quota_call.i <= NumEndpoints
    /\ quota_call' = try_endpoint(quota_call)
    /\ UNCHANGED quota_call_frame

GiveUp ==
    /\ quota_call.pc = "loop" /\ quota_call.i > NumEndpoints
    /\ quota_call' = give_up(quota_call)
    /\ UNCHANGED quota_call_frame

NextQuotaCall == TryEndpoint \/ GiveUp

SpecQuotaCall == InitQuotaCall /\ [][NextQuotaCall]_vars

InQuotaCall == quota_call.pc \in {"loop", "returned", "raised"}

\* An answer that ends the lookup: 200 with a models object, or 403.
Ends(a) == a.answered /\ ((a.status = 200 /\ a.models) \/ a.status = 403)
\* An answer with a status other than 200 and 403.
Other(a) == a.answered /\ a.message # "result_not_dict" /\ a.status \notin {200, 403}

\* C28: the endpoints are called in list order, each at most once; the lookup
\* stops at the first endpoint answering 200 with models (success) or 403 (the
\* permission error); when no endpoint ends it, it returns a failure with the
\* error and the status code of the last endpoint that answered with another
\* status, or with the generic error and code 0 when none did; it always ends
\* by returning a result.
CE_C28_LastEndpointsError ==
    InQuotaCall =>
        LET q == quota_call
            n == Len(q.calls)
            stops == {k \in Endpoints : Ends(q.answers[k])}
            others == {k \in Endpoints : Other(q.answers[k])}
        IN  /\ \A k \in 1..n : q.calls[k] = k
            /\ n <= NumEndpoints
            /\ \A k \in 1..(n - 1) : ~Ends(q.answers[k])
            /\ q.pc # "raised"
            /\ q.pc = "loop" => (~q.result.returned /\ \A k \in 1..n : ~Ends(q.answers[k]))
            /\ q.pc = "returned" =>
                  /\ q.result.returned
                  /\ IF stops # {}
                     THEN LET s == CHOOSE k \in stops : \A j \in stops : k <= j
                          IN  /\ n = s
                              /\ q.result.success <=> q.answers[s].status = 200
                              /\ q.answers[s].status = 403 =>
                                    (q.result.error.kind = "permission"
                                     /\ q.result.error_code = 403)
                     ELSE /\ n = NumEndpoints /\ ~q.result.success
                          /\ IF others = {}
                             THEN q.result.error.kind = "generic" /\ q.result.error_code = 0
                             ELSE LET l == CHOOSE k \in others : \A j \in others : k >= j
                                  IN  /\ q.result.error_code = q.answers[l].status
                                      /\ q.result.error = error_of(q.answers[l], l)

\* The first endpoint answers 500 with a body whose error is a text: the lookup
\* ends after one call with the exception, no result returned and the other
\* endpoints never tried.
Wit_C28_RaisedOnTextError ==
    /\ quota_call.pc = "raised" /\ quota_call.calls = <<1>>
    /\ quota_call.answers[1].status = 500
    /\ quota_call.answers[1].message = "error_not_dict"
    /\ ~quota_call.result.returned

(***************************************************************************)
(* _build_quota_data alone, over credentials of every kind: with or        *)
(* without auth_index, disabled or not, and every answer to each lookup.   *)
(***************************************************************************)
Credentials ==
    [provider : {"antigravity", "gemini", "gemini-cli", "codex"},
     has_auth_index : BOOLEAN, disabled : BOOLEAN]
    \cup {Credential("claude")}

InitQuotaData ==
    /\ SCALE_FACTOR = renderer_init(NoConfig.high_res_render)
    /\ config = NoConfig
    /\ max_render_count = main_init(NoConfig)
    /\ auth_files \in SeqsUpTo(Credentials, MaxCredentials)
    /\ data = NoData
    /\ canvas = NoCanvas
    /\ img = NoImage
    /\ planner_runs = NoRuns
    /\ bar = NoBar
    /\ StepsIdle

\* A call of _build_quota_data, up to its first await.
BuildQuotaData ==
    /\ build = NoBuild
    /\ build' = start_build("none")
    /\ UNCHANGED build_frame

NextQuotaData == BuildQuotaData \/ GetAuthFiles \/ Lookup

SpecQuotaData == InitQuotaData /\ [][NextQuotaData]_vars

QuotaBuilt == build.pc = "returned" /\ data.stats_type = "quota"
QuotaCapable(a) == a.provider \in QUOTA_SUPPORTED_PROVIDERS

\* C29: the build returns a payload that holds one entry per quota-capable
\* credential; the entries of a provider are its credentials' entries in
\* credential order, and the providers' entries are not interleaved; every
\* entry has a non-empty error and no quotas, or no error and at least one
\* quota.
CE_C29_ErrorOrQuotas ==
    /\ build.pc # "raised"
    /\ QuotaBuilt =>
        LET capable == SelectSeq(auth_files, QuotaCapable)
            of(p) == SelectSeq(capable, LAMBDA a : display_provider(a.provider) = p)
            seen(p) == SelectSeq(build.seen,
                                 LAMBDA e : display_provider(e.auth.provider) = p)
            entries(p) == SelectSeq(data.accounts, LAMBDA e : e.provider = p)
        IN  /\ Len(data.accounts) = Len(capable)
            /\ \A p \in {"antigravity", "gemini", "codex"} :
                  /\ [k \in 1..Len(seen(p)) |-> seen(p)[k].auth] = of(p)
                  /\ entries(p) = [k \in 1..Len(seen(p)) |->
                                      account_data(seen(p)[k].auth, seen(p)[k].answer)]
                  /\ \A i, j \in 1..Len(data.accounts) :
                        (i <= j /\ data.accounts[i].provider = p
                               /\ data.accounts[j].provider = p)
                           => \A m \in i..j : data.accounts[m].provider = p
            /\ \A i \in 1..Len(data.accounts) :
                  LET e == data.accounts[i]
                  IN  (e.error /\ e.n_quotas = 0) \/ (~e.error /\ e.n_quotas > 0)

\* A gemini-cli credential whose lookup failed with an empty error message:
\* its entry has neither an error nor a quota.
Wit_C29_NeitherErrorNorQuotas ==
    /\ QuotaBuilt /\ Len(auth_files) = 1
    /\ auth_files[1].provider = "gemini-cli"
    /\ build.seen = <<[auth |-> auth_files[1],
                       answer |-> [lookup |-> "failed_empty", n_groups |-> 0]]>>
    /\ Len(data.accounts) = 1
    /\ ~data.accounts[1].error /\ data.accounts[1].n_quotas = 0

\* The image a renderer with supersample factor s returns for payload d.
image_at(d, s) ==
    LET c == plan(d, s)
    IN  IF c.planner = "none" THEN NoImage ELSE finish(c, s)

\* C30: for the overview, today and quota cards the logical width and height
\* of the image depend on the payload alone: the renderer with factor 3 and
\* the one with factor 2 return images of the same size, and the image of a
\* render is the one any render of that payload gives, whatever was rendered
\* before.
Thm_C30_SizeIndependentOfFactor ==
    (Rendered /\ canvas.planner \in {"overview", "today", "quota"}) =>
        /\ ~img.is_none
        /\ image_at(data, 2) = image_at(data, 3)
        /\ \A s \in {2, 3} :
              /\ img.width = image_at(data, s).width
              /\ img.height = image_at(data, s).height
              /\ s * img.width = plan(data, s).width
              /\ s * img.height = plan(data, s).crop_height

\* A quota card of five accounts rendered at factor 3: the same size as at factor 2.
Wit_C30_QuotaCardBothFactors ==
    /\ RenderedAs("quota") /\ SCALE_FACTOR = 3 /\ Len(data.accounts) = 5
    /\ ~img.is_none
    /\ img = image_at(data, 2)
    /\ plan(data, 2).crop_height < plan(data, 3).crop_height

====
